---- MODULE Spec2Model ----
(***************************************************************************)
(* Teddy-Talk: the conversational orchestration core.                      *)
(*                                                                         *)
(*   - GeminiError / withErrorHandling (services/geminiService.ts 6-52):   *)
(*     the error-classification wrapper around every remote call.          *)
(*   - GeminiService.executeChat (services/geminiService.ts 216-320):      *)
(*     the bounded multi-turn tool-calling loop.                           *)
(*                                                                         *)
(* JavaScript values are modelled as follows.                              *)
(*   - An optional value is a sequence of length 0 or 1: None is           *)
(*     `undefined`, Some(x) is the value x.                                *)
(*   - A string is a sequence of chunks (each chunk a TLA+ string); ""     *)
(*     is the empty sequence.  s.includes(w) is chunk membership and       *)
(*     s.trim() drops the leading and trailing whitespace chunks.          *)
(***************************************************************************)
EXTENDS Integers, Sequences, FiniteSets, TLC

----------------------------------------------------------------------------
(* JavaScript values *)

None == <<>>

Some(x) == <<x>>

\* the chunk that stands for a run of white space
WS == " "

\* String.prototype.includes, on chunks
Includes(s, w) == \E i \in 1..Len(s) : s[i] = w

RECURSIVE TrimStart(_)
TrimStart(s) ==
    IF s = <<>> THEN <<>>
    ELSE IF Head(s) = WS THEN TrimStart(Tail(s)) ELSE s

RECURSIVE TrimEnd(_)
TrimEnd(s) ==
    IF s = <<>> THEN <<>>
    ELSE IF s[Len(s)] = WS THEN TrimEnd(SubSeq(s, 1, Len(s) - 1)) ELSE s

\* String.prototype.trim
Trim(s) == TrimEnd(TrimStart(s))

\* `${x}` in a template literal: undefined prints as "undefined"
Str(o) == IF o = None THEN "undefined" ELSE o[1]

\* truthiness of an optional number: undefined and 0 are falsy
TruthyNum(o) == o # None /\ o[1] # 0

\* truthiness of an optional string: undefined and "" are falsy
TruthyStr(o) == o # None /\ o[1] # <<>>

----------------------------------------------------------------------------
(* GeminiError and withErrorHandling, services/geminiService.ts 6-52 *)

QuotaMessage == <<"I'm thinking too fast! I need a short nap.">>

OverloadMessage == <<"My brain is a bit foggy. Give me a moment.">>

GenericMessage == <<"Something went wrong. Let's try again.">>

QuotaStatus == 429

OverloadStatus == 503

QuotaDelay == 60000

OverloadDelay == 10000

DefaultDelay == 5000

\* new GeminiError(message, status) without its 429 branch
GeminiErrorNoQuota(message, status) ==
    IF status = Some(OverloadStatus)
    THEN [name |-> "GeminiError", retryDelay |-> OverloadDelay, isQuotaError |-> FALSE,
          message |-> OverloadMessage]
    ELSE [name |-> "GeminiError", retryDelay |-> DefaultDelay, isQuotaError |-> FALSE,
          message |-> IF TruthyStr(message) THEN message[1] ELSE GenericMessage]

\* new GeminiError(message, status)
GeminiError(message, status) ==
    IF status = Some(QuotaStatus)
    THEN [name |-> "GeminiError", retryDelay |-> QuotaDelay, isQuotaError |-> TRUE,
          message |-> QuotaMessage]
    ELSE IF status = Some(OverloadStatus)
    THEN [name |-> "GeminiError", retryDelay |-> OverloadDelay, isQuotaError |-> FALSE,
          message |-> OverloadMessage]
    ELSE [name |-> "GeminiError", retryDelay |-> DefaultDelay, isQuotaError |-> FALSE,
          message |-> IF TruthyStr(message) THEN message[1] ELSE GenericMessage]

\* error.status || error.response?.status
ExtractStatus(error) ==
    IF TruthyNum(error.status) THEN error.status ELSE error.responseStatus

\* the message carries a quota signature
HasQuotaSignature(message) ==
    TruthyStr(message) /\ (Includes(message[1], "429") \/ Includes(message[1], "quota"))

\* the message carries an overload signature
HasOverloadSignature(message) ==
    TruthyStr(message) /\ (Includes(message[1], "503") \/ Includes(message[1], "overloaded"))

\* the status after the message heuristics, were they applied whatever the status
ClassifyStatusAlways(error) ==
    LET s0 == ExtractStatus(error)
        s1 == IF HasQuotaSignature(error.message) THEN Some(QuotaStatus) ELSE s0
    IN  IF s1 # Some(QuotaStatus) /\ HasOverloadSignature(error.message)
        THEN Some(OverloadStatus) ELSE s1

\* the status after the message heuristics of the catch block (lines 39-48)
ClassifyStatus(error) ==
    LET s0 == ExtractStatus(error)
        s1 == IF ~TruthyNum(s0) /\ HasQuotaSignature(error.message)
              THEN Some(QuotaStatus) ELSE s0
    IN  IF ~TruthyNum(s1) /\ HasOverloadSignature(error.message)
        THEN Some(OverloadStatus) ELSE s1

\* the catch block of withErrorHandling: the error it throws for a caught one
Reclassify(error) == GeminiError(error.message, ClassifyStatus(error))

----------------------------------------------------------------------------
(* One invocation of withErrorHandling, services/geminiService.ts 32-52 *)

VARIABLES
    invPc,        \* "idle", "awaiting" (inside `await operation()`), "returned", "thrown"
    opCalls,      \* how often this invocation has called operation()
    opValue,      \* the value operation() resolved with, if it did
    opError,      \* the error operation() rejected with, if it did
    invValue,     \* the value withErrorHandling resolved with, if it did
    invThrown     \* the error withErrorHandling rejected with, if it did

invokeVars == <<invPc, opCalls, opValue, opError, invValue, invThrown>>

\* error.status, error.response?.status and error.message of a thrown error
ErrorStatuses == {None, Some(0), Some(429), Some(503), Some(500)}

ErrorResponseStatuses == {None, Some(429), Some(503), Some(404)}

ErrorMessages ==
    { None, Some(<<>>), Some(<<"network", "down">>),
      Some(<<"got", "429">>), Some(<<"quota", "exceeded">>),
      Some(<<"503", "unavailable">>), Some(<<"model", "overloaded">>),
      Some(<<"quota", "overloaded">>) }

ThrownErrors ==
    [name : {"Error"}, status : ErrorStatuses, responseStatus : ErrorResponseStatuses,
     message : ErrorMessages]

\* what a wrapped operation resolves with
OperationValues == {<<"value-a">>, <<"value-b">>, <<>>}

InitInvoke ==
    /\ invPc = "idle"
    /\ opCalls = 0
    /\ opValue = None
    /\ opError = None
    /\ invValue = None
    /\ invThrown = None

\* withErrorHandling(operation) is entered: operation() is called and awaited
Invoke ==
    /\ invPc = "idle"
    /\ invPc' = "awaiting"
    /\ opCalls' = opCalls + 1
    /\ UNCHANGED <<opValue, opError, invValue, invThrown>>

\* `return await operation()` when the operation resolves
OperationResolves ==
    /\ invPc = "awaiting"
    /\ \E v \in OperationValues :
         /\ opValue' = Some(v)
         /\ invValue' = Some(v)
    /\ invPc' = "returned"
    /\ UNCHANGED <<opCalls, opError, invThrown>>

\* a wrapper that calls the operation once more after a first failure
OperationRejectsRetries ==
    /\ invPc = "awaiting"
    /\ \E e \in ThrownErrors :
         /\ opError' = Some(e)
         /\ IF opCalls < 2
            THEN /\ invPc' = "awaiting"
                 /\ opCalls' = opCalls + 1
                 /\ invThrown' = invThrown
            ELSE /\ invPc' = "thrown"
                 /\ opCalls' = opCalls
                 /\ invThrown' = Some(Reclassify(e))
    /\ UNCHANGED <<opValue, invValue>>

\* the catch block when the operation rejects
OperationRejects ==
    /\ invPc = "awaiting"
    /\ \E e \in ThrownErrors :
         /\ opError' = Some(e)
         /\ invThrown' = Some(Reclassify(e))
    /\ invPc' = "thrown"
    /\ UNCHANGED <<opCalls, opValue, invValue>>

\* the caller is done with the settled promise; a later call is a new invocation
InvokeSettled ==
    /\ invPc \in {"returned", "thrown"}
    /\ invPc' = "idle"
    /\ opCalls' = 0
    /\ opValue' = None
    /\ opError' = None
    /\ invValue' = None
    /\ invThrown' = None

----------------------------------------------------------------------------
(* GeminiService.executeChat, services/geminiService.ts 216-320 *)

MAX_TURNS == 5

\* the longest `parts` array of a model response that is enumerated
MaxParts == 2

ApologyUtterance == <<"I'm sorry, I got distracted by a butterfly. What did you say?">>

LetsPlayUtterance == <<"I can't talk about that right now, but let's play!">>

\* the return of line 318 without its || "..."
PlaceholderMissing == <<>>

\* the "..." of line 318
Placeholder == <<"...">>

\* a Part of @google/genai: every field is optional
MkPart(text, functionCall, functionResponse, inlineData) ==
    [text |-> text, functionCall |-> functionCall,
     functionResponse |-> functionResponse, inlineData |-> inlineData]

TextPart(t) == MkPart(Some(t), None, None, FALSE)

CallPart(c) == MkPart(None, Some(c), None, FALSE)

\* the arguments object of a function call; a key that is absent reads as undefined
NoArgs == [key |-> None, value |-> None, action |-> None, newName |-> None, mood |-> None]

\* a FunctionCall of @google/genai
Call(name, args, id) == [name |-> name, args |-> args, id |-> id]

\* the function calls the model is enumerated to make, with and without a call
\* id; manageSpeechTask is a tool of the therapy context, not declared in chatTools
FunctionCalls ==
    { Call("updateMemory",
           [NoArgs EXCEPT !.key = Some("childName"), !.value = Some("Sam"),
                          !.action = Some("set")], Some("call-1")),
      Call("updateMemory",
           [NoArgs EXCEPT !.key = Some("likes"), !.value = Some("frogs"),
                          !.action = Some("add")], None),
      Call("updateCharacterName", [NoArgs EXCEPT !.newName = Some("Bear")], None),
      Call("setMood", [NoArgs EXCEPT !.mood = Some("happy")], Some("call-2")),
      Call("setMood", [NoArgs EXCEPT !.mood = Some("sad")], None),
      Call("manageSpeechTask", NoArgs, Some("call-3")) }

ResponseTexts == {<<WS>>, <<"Hello">>, <<WS, "Bye">>}

\* the parts of a model response: a part carries exactly one kind of data (text,
\* a function call, inline data) or a kind this client does not read
ResponseParts ==
    {TextPart(t) : t \in ResponseTexts}
      \cup {CallPart(c) : c \in FunctionCalls}
      \cup {MkPart(None, None, None, TRUE), MkPart(None, None, None, FALSE)}

\* result.candidates?.[0]?.content?.parts: undefined, or an array of parts
Responses ==
    {None} \cup {Some(ps) : ps \in UNION {[1..n -> ResponseParts] : n \in 0..MaxParts}}

\* the chat histories handed to executeChat: none (startNewSession), and one with
\* a turn of blank text
Histories ==
    { <<>>,
      <<[role |-> "user", text |-> <<"Hi">>], [role |-> "model", text |-> <<WS>>]>> }

Prompts == {<<"Hello", "Teddy">>, <<"[SYSTEM EVENT]">>}

\* the failures of generateContent that are enumerated in the chat loop
TransportErrors ==
    {e \in ThrownErrors :
        /\ e.responseStatus = None
        /\ \/ e.status = Some(429) /\ e.message = None
           \/ e.status = None /\ e.message = Some(<<"network", "down">>)}

VARIABLES
    chatPc,                \* where executeChat stands
    contents,              \* the turns sent to the model: [role, sent, parts]
    turnCount,
    finalResponseText,
    response,              \* result.candidates?.[0]?.content?.parts of the last response
    validResponseParts,
    functionCalls,
    callIdx,               \* the position of the `for (const call of functionCalls)` loop
    functionResponseParts,
    responseCallbacks,     \* the caller's callbacks invoked for the last response, in order
    modelCalls,            \* generateContent calls issued by this invocation
    toolResponses,         \* responses received in this invocation that held function calls
    callsReceived,         \* function calls received in this invocation
    dispatched,            \* function calls the for loop has handled in this invocation
    resultTurns,           \* function-response turns appended in this invocation
    returned,              \* the value executeChat resolved with, if it did
    chatThrown             \* the error executeChat rejected with, if it did

chatVars ==
    <<chatPc, contents, turnCount, finalResponseText, response, validResponseParts,
      functionCalls, callIdx, functionResponseParts, responseCallbacks, modelCalls,
      toolResponses, callsReceived, dispatched, resultTurns, returned, chatThrown>>

\* a turn of `contents`
Turn(role, parts) == [role |-> role, sent |-> FALSE, parts |-> parts]

\* a turn that a request has carried to the model: executeChat never reads it
\* again, so only its role is kept
Sent(turn) == [role |-> turn.role, sent |-> TRUE, parts |-> <<>>]

SentAll(turns) == [i \in 1..Len(turns) |-> Sent(turns[i])]

\* history.map(h => ...): an empty or blank text is sent as "..."
HistoryTurn(h) ==
    Turn(h.role, <<TextPart(IF Len(Trim(h.text)) > 0 THEN h.text ELSE Placeholder)>>)

InitialContents(history, prompt) ==
    Append([i \in 1..Len(history) |-> HistoryTurn(history[i])],
           Turn("user", <<TextPart(prompt)>>))

\* the predicate of lines 263-266
IsValidPart(p) ==
    IF p.text # None THEN Len(Trim(p.text[1])) > 0
    ELSE p.functionCall # None \/ p.inlineData

HasFunctionCall(p) == p.functionCall # None

\* responseContent.parts.filter(...), lines 263-266
ValidParts(ps) == SelectSeq(ps, IsValidPart)

\* validResponseParts.filter(p => !!p.functionCall).map(p => p.functionCall)
CallsOf(ps) ==
    LET withCall == SelectSeq(ps, HasFunctionCall)
    IN  [i \in 1..Len(withCall) |-> withCall[i].functionCall[1]]

\* the text of the last text part instead of the first
FirstTextLast(ps) ==
    LET withText == SelectSeq(ps, LAMBDA p : TruthyStr(p.text))
    IN  IF withText = <<>> THEN <<>> ELSE withText[Len(withText)].text[1]

\* validResponseParts.find(p => p.text)?.text || ""
FirstText(ps) ==
    LET withText == SelectSeq(ps, LAMBDA p : TruthyStr(p.text))
    IN  IF withText = <<>> THEN <<>> ELSE withText[1].text[1]

\* a callback of the caller, with the arguments it is given
Callback(cb, a1, a2, a3) == [cb |-> cb, a1 |-> a1, a2 |-> a2, a3 |-> a3]

\* an if-chain whose last branch takes every remaining name for setMood
CallbacksForFallThrough(call) ==
    IF call.name = "updateMemory"
    THEN <<Callback("onMemoryUpdate", call.args.key, call.args.value, call.args.action)>>
    ELSE IF call.name = "updateCharacterName"
    THEN <<Callback("onCharacterUpdate", call.args.newName, None, None)>>
    ELSE <<Callback("onMoodUpdate", call.args.mood, None, None)>>

\* onMemoryUpdate given value and key in the wrong order
CallbacksForSwapped(call) ==
    IF call.name = "updateMemory"
    THEN <<Callback("onMemoryUpdate", call.args.value, call.args.key, call.args.action)>>
    ELSE IF call.name = "updateCharacterName"
    THEN <<Callback("onCharacterUpdate", call.args.newName, None, None)>>
    ELSE IF call.name = "setMood"
    THEN <<Callback("onMoodUpdate", call.args.mood, None, None)>>
    ELSE <<>>

\* the callbacks lines 284-298 invoke for one call
CallbacksFor(call) ==
    IF call.name = "updateMemory"
    THEN <<Callback("onMemoryUpdate", call.args.key, call.args.value, call.args.action)>>
    ELSE IF call.name = "updateCharacterName"
    THEN <<Callback("onCharacterUpdate", call.args.newName, None, None)>>
    ELSE IF call.name = "setMood"
    THEN <<Callback("onMoodUpdate", call.args.mood, None, None)>>
    ELSE <<>>

\* toolResult of lines 284-298
ToolResult(call) ==
    IF call.name = "updateMemory" THEN <<"Memory updated.">>
    ELSE IF call.name = "updateCharacterName"
    THEN <<"Name updated to ", Str(call.args.newName), ".">>
    ELSE IF call.name = "setMood"
    THEN <<"Mood set to ", Str(call.args.mood), ".">>
    ELSE <<"Function executed.">>

\* the pushed part without the id of the call
FunctionResponsePartNoId(call) ==
    MkPart(None, None,
           Some([name |-> call.name, response |-> ToolResult(call), id |-> None]),
           FALSE)

\* the part pushed at lines 300-306
FunctionResponsePart(call) ==
    MkPart(None, None,
           Some([name |-> call.name, response |-> ToolResult(call), id |-> call.id]),
           FALSE)

\* the loop test off by one
LoopConditionOffByOne(count) == count <= MAX_TURNS

\* the condition of the while loop, line 242
LoopCondition(count) == count < MAX_TURNS

\* the apology on every iteration
TextOnNoContentAlwaysApology(count, text) == ApologyUtterance

\* finalResponseText after the break of lines 257-261
TextOnNoContent(count, text) == IF count = 1 THEN ApologyUtterance ELSE text

\* finalResponseText after the break of lines 268-271
TextOnNoValidParts(text) == IF text = <<>> THEN LetsPlayUtterance ELSE text

\* the names the if-chain of lines 284-295 knows: the tools of chatTools
ChatToolNames == {"updateMemory", "updateCharacterName", "setMood"}

InitChat ==
    /\ chatPc = "idle"
    /\ contents = <<>>
    /\ turnCount = 0
    /\ finalResponseText = <<>>
    /\ response = None
    /\ validResponseParts = <<>>
    /\ functionCalls = <<>>
    /\ callIdx = 0
    /\ functionResponseParts = <<>>
    /\ responseCallbacks = <<>>
    /\ modelCalls = 0
    /\ toolResponses = 0
    /\ callsReceived = 0
    /\ dispatched = 0
    /\ resultTurns = 0
    /\ returned = None
    /\ chatThrown = None

\* lines 226-240: executeChat is entered through sendMessage, resumeSession or
\* startNewSession
StartChat ==
    /\ chatPc = "idle"
    /\ \E history \in Histories, prompt \in Prompts :
         contents' = InitialContents(history, prompt)
    /\ finalResponseText' = <<>>
    /\ turnCount' = 0
    /\ chatPc' = "loopHead"
    /\ UNCHANGED <<response, validResponseParts, functionCalls, callIdx,
                   functionResponseParts, responseCallbacks, modelCalls, toolResponses,
                   callsReceived, dispatched, resultTurns, returned, chatThrown>>

\* lines 242-253: the loop test, and in the loop the next generateContent call,
\* which carries `contents`; the locals of the loop body start afresh
LoopHead ==
    /\ chatPc = "loopHead"
    /\ IF LoopCondition(turnCount)
       THEN /\ turnCount' = turnCount + 1
            /\ modelCalls' = modelCalls + 1
            /\ contents' = SentAll(contents)
            /\ response' = None
            /\ validResponseParts' = <<>>
            /\ functionCalls' = <<>>
            /\ callIdx' = 0
            /\ functionResponseParts' = <<>>
            /\ responseCallbacks' = <<>>
            /\ chatPc' = "awaitModel"
       ELSE /\ chatPc' = "return"
            /\ UNCHANGED <<turnCount, modelCalls, contents, response, validResponseParts,
                           functionCalls, callIdx, functionResponseParts,
                           responseCallbacks>>
    /\ UNCHANGED <<finalResponseText, toolResponses, callsReceived, dispatched,
                   resultTurns, returned, chatThrown>>

\* lines 255-278 and 312-315: generateContent resolves
ModelResponds ==
    /\ chatPc = "awaitModel"
    /\ \E r \in Responses :
         /\ response' = r
         /\ IF r = None
            THEN /\ finalResponseText' = TextOnNoContent(turnCount, finalResponseText)
                 /\ chatPc' = "return"
                 /\ UNCHANGED <<contents, validResponseParts, functionCalls, callIdx,
                                functionResponseParts, responseCallbacks, toolResponses,
                                callsReceived>>
            ELSE IF Len(ValidParts(r[1])) = 0
            THEN /\ finalResponseText' = TextOnNoValidParts(finalResponseText)
                 /\ chatPc' = "return"
                 /\ UNCHANGED <<contents, validResponseParts, functionCalls, callIdx,
                                functionResponseParts, responseCallbacks, toolResponses,
                                callsReceived>>
            ELSE /\ validResponseParts' = ValidParts(r[1])
                 /\ contents' = Append(contents, Turn("model", ValidParts(r[1])))
                 /\ functionCalls' = CallsOf(ValidParts(r[1]))
                 /\ callsReceived' = callsReceived + Len(CallsOf(r[1]))
                 /\ toolResponses' = toolResponses + (IF CallsOf(r[1]) # <<>> THEN 1 ELSE 0)
                 /\ UNCHANGED <<functionResponseParts, responseCallbacks>>
                 /\ IF Len(CallsOf(ValidParts(r[1]))) > 0
                    THEN /\ callIdx' = 1
                         /\ chatPc' = "dispatch"
                         /\ UNCHANGED finalResponseText
                    ELSE /\ callIdx' = 0
                         /\ finalResponseText' = FirstText(ValidParts(r[1]))
                         /\ chatPc' = "return"
    /\ UNCHANGED <<turnCount, modelCalls, dispatched, resultTurns, returned, chatThrown>>

\* generateContent rejects: the catch block of withErrorHandling rethrows
ModelFails ==
    /\ chatPc = "awaitModel"
    /\ \E e \in TransportErrors : chatThrown' = Some(Reclassify(e))
    /\ chatPc' = "failed"
    /\ UNCHANGED <<contents, turnCount, finalResponseText, response, validResponseParts,
                   functionCalls, callIdx, functionResponseParts, responseCallbacks,
                   modelCalls, toolResponses, callsReceived, dispatched, resultTurns,
                   returned>>

\* lines 280-307: one pass of the for loop over functionCalls
DispatchCall ==
    /\ chatPc = "dispatch"
    /\ callIdx <= Len(functionCalls)
    /\ responseCallbacks' = responseCallbacks \o CallbacksFor(functionCalls[callIdx])
    /\ functionResponseParts' =
          Append(functionResponseParts, FunctionResponsePart(functionCalls[callIdx]))
    /\ callIdx' = callIdx + 1
    /\ dispatched' = dispatched + 1
    /\ UNCHANGED <<chatPc, contents, turnCount, finalResponseText, response,
                   validResponseParts, functionCalls, modelCalls, toolResponses,
                   callsReceived, resultTurns, returned, chatThrown>>

\* lines 309-310: the results are pushed as one user turn and the loop continues
AppendResults ==
    /\ chatPc = "dispatch"
    /\ callIdx > Len(functionCalls)
    /\ contents' = Append(contents, Turn("user", functionResponseParts))
    /\ resultTurns' = resultTurns + 1
    /\ chatPc' = "loopHead"
    /\ UNCHANGED <<turnCount, finalResponseText, response, validResponseParts,
                   functionCalls, callIdx, functionResponseParts, responseCallbacks,
                   modelCalls, toolResponses, callsReceived, dispatched, returned,
                   chatThrown>>

\* a return that raises when the turns ran out without a final text
ReturnTextRaisesWhenExhausted ==
    /\ chatPc = "return"
    /\ IF finalResponseText = <<>> /\ resultTurns = MAX_TURNS
       THEN /\ chatThrown' = Some(GeminiError(Some(<<"Too many turns">>), None))
            /\ chatPc' = "failed"
            /\ UNCHANGED returned
       ELSE /\ returned' =
                 Some(IF finalResponseText # <<>> THEN finalResponseText ELSE Placeholder)
            /\ chatPc' = "done"
            /\ UNCHANGED chatThrown
    /\ UNCHANGED <<contents, turnCount, finalResponseText, response, validResponseParts,
                   functionCalls, callIdx, functionResponseParts, responseCallbacks,
                   modelCalls, toolResponses, callsReceived, dispatched, resultTurns>>

\* line 318
ReturnText ==
    /\ chatPc = "return"
    /\ returned' = Some(IF finalResponseText # <<>> THEN finalResponseText ELSE Placeholder)
    /\ chatPc' = "done"
    /\ UNCHANGED <<contents, turnCount, finalResponseText, response, validResponseParts,
                   functionCalls, callIdx, functionResponseParts, responseCallbacks,
                   modelCalls, toolResponses, callsReceived, dispatched, resultTurns,
                   chatThrown>>

----------------------------------------------------------------------------
(* The application state shared by the panels: memory, the active practice  *)
(* task and the status of handleApiOperation (App component)               *)

\* how many recordings are handed to handleTherapyRecord in one session
MaxRecordings == 3

\* Date.now().toString() of the tasks generated in one session, all different
TaskIds == {"t1", "t2"}

Phonemes == {"R", "S"}

\* a memory entry written through updateMemoryState: undefined, a string, or an
\* array of strings
Undefined == [kind |-> "undefined", items |-> <<>>]

StringValue(v) == [kind |-> "string", items |-> <<v>>]

ArrayValue(items) == [kind |-> "array", items |-> items]

\* memory.phonemeStats: the object of per-phoneme counters, or what a write through
\* updateMemoryState left in its place (a string, an array)
StatsObject(stats) == [kind |-> "object", stats |-> stats]

NoStats == [kind |-> "string", stats |-> <<>>]

StatsInArray == [kind |-> "array", stats |-> <<>>]

\* INITIAL_MEMORY
INITIAL_MEMORY ==
    [childName |-> Undefined, speechTasks |-> <<>>, phonemeStats |-> StatsObject(<<>>),
     baseline |-> None, achievements |-> <<>>]

\* prev.phonemeStats?.[phoneme] || { attempts: 0, success: 0 }
CurrentStats(phonemeStats, phoneme) ==
    IF phonemeStats.kind = "object" /\ phoneme \in DOMAIN phonemeStats.stats
    THEN phonemeStats.stats[phoneme]
    ELSE [attempts |-> 0, success |-> 0]

\* { ...prev.phonemeStats, [phoneme]: entry }: the counters of a string or of an
\* array are not carried over
WithStats(phonemeStats, phoneme, entry) ==
    LET old == IF phonemeStats.kind = "object" THEN phonemeStats.stats ELSE <<>>
    IN StatsObject([p \in DOMAIN old \cup {phoneme} |->
                       IF p = phoneme THEN entry ELSE old[p]])

\* newMemory[key] of updateMemoryState for a key that holds strings
UpdateValue(old, value, action) ==
    IF action = "set" THEN StringValue(value)
    ELSE IF action = "add"
    THEN LET base == IF old.kind = "array" THEN old.items
                     ELSE IF old.kind = "string" /\ old.items[1] # "" THEN old.items
                     ELSE <<>>
         IN ArrayValue(IF \E i \in 1..Len(base) : base[i] = value
                       THEN base ELSE Append(base, value))
    ELSE old

\* newMemory.phonemeStats of updateMemoryState when the key is "phonemeStats": an
\* object is truthy, so 'add' wraps it in an array
UpdateStats(old, action) ==
    IF action = "set" THEN NoStats
    ELSE IF action = "add" THEN StatsInArray
    ELSE old

\* updateMemoryState(key, value, action) applied to the previous memory
updateMemoryState(prev, key, value, action) ==
    IF key = "phonemeStats"
    THEN [prev EXCEPT !.phonemeStats = UpdateStats(prev.phonemeStats, action)]
    ELSE IF key = "childName"
    THEN [prev EXCEPT !.childName = UpdateValue(prev.childName, value, action)]
    ELSE prev

----------------------------------------------------------------------------
(* Practice tasks: generateTherapyTask, assessPronunciation and their      *)
(* handlers handleStartTherapyTask, handleTherapyRecord, handleLoadTask    *)

\* the SpeechTask built by generateTherapyTask (lastPracticed, a time stamp, is
\* left out)
NewTask(id, word, targetPhoneme) ==
    [id |-> id, word |-> word, targetPhoneme |-> targetPhoneme, status |-> "new",
     urgency |-> None, report |-> None, attempts |-> 0, history |-> <<>>]

\* result.text of the generation call: undefined, text that is not JSON, or a JSON
\* object with or without word and targetPhoneme
GenerationTexts ==
    { [text |-> FALSE, json |-> FALSE, word |-> None, targetPhoneme |-> None],
      [text |-> TRUE, json |-> FALSE, word |-> None, targetPhoneme |-> None],
      [text |-> TRUE, json |-> TRUE, word |-> None, targetPhoneme |-> Some("R")],
      [text |-> TRUE, json |-> TRUE, word |-> Some("Rabbit"), targetPhoneme |-> Some("R")],
      [text |-> TRUE, json |-> TRUE, word |-> Some("Rabbit"), targetPhoneme |-> None] }

\* data.word.charAt(0).toUpperCase()
FirstLetter(word) == IF word = "Sun" THEN "S" ELSE "R"

\* JSON.parse(result.text || "{}") succeeds
Parses(result) == ~result.text \/ result.json

\* the outcome of the operation wrapped by generateTherapyTask: a task, or the
\* error thrown by JSON.parse or by the check of data.word
ParseError == [name |-> "SyntaxError", status |-> None, responseStatus |-> None,
               message |-> Some(<<"Unexpected token">>)]

InvalidFormat == [name |-> "Error", status |-> None, responseStatus |-> None,
                  message |-> Some(<<"Invalid format">>)]

\* the failures of generateContent that are enumerated for the single-shot calls
RemoteErrors == {e \in TransportErrors : e.status = Some(QuotaStatus)}

\* the arguments of a manageSpeechTask call; taskId and status are required by the
\* tool's schema, an absent optional argument reads as undefined
TaskArgs(taskId, status, urgency, strengths, howToHelp) ==
    [taskId |-> taskId, status |-> status, urgency |-> urgency,
     strengths |-> strengths, needsWork |-> None, howToHelp |-> howToHelp,
     mood |-> None]

MoodArgs(mood) ==
    [taskId |-> "", status |-> "", urgency |-> None, strengths |-> None,
     needsWork |-> None, howToHelp |-> None, mood |-> Some(mood)]

\* the function calls of an assessment response
AssessmentCalls ==
    {Call("manageSpeechTask",
          TaskArgs(id, "mastered", Some("low"), Some(<<"clear", "R">>), Some(<<"praise">>)),
          None) : id \in TaskIds}
      \cup {Call("manageSpeechTask", TaskArgs(id, status, None, None, None), None) :
              id \in TaskIds, status \in {"in_progress", "review_needed"}}
      \cup {Call("manageSpeechTask", TaskArgs("t0", "in_progress", None, None, None), None),
            Call("setMood", MoodArgs("excited"), None)}

FeedbackText == <<"Good", "try">>

HearAgainUtterance == <<"I couldn't quite hear that. Can you try again?">>

AssessmentParts ==
    {CallPart(c) : c \in AssessmentCalls} \cup {TextPart(FeedbackText), TextPart(<<>>)}

\* the calls that are enumerated to come twice in one response
RepeatedCalls ==
    {c \in AssessmentCalls : c.args.taskId = "t1" /\ c.args.status # "review_needed"}

\* response.candidates?.[0]?.content of an assessment: undefined, or its parts:
\* none, one part, a call followed by the spoken text, or two calls
AssessmentResponses ==
    {None, Some(<<>>)}
      \cup {Some(<<p>>) : p \in AssessmentParts}
      \cup {Some(<<CallPart(c), TextPart(FeedbackText)>>) : c \in AssessmentCalls}
      \cup {Some(<<CallPart(c), CallPart(d)>>) : c, d \in RepeatedCalls}

VARIABLES
    memory,        \* the App's memory state
    activeTask,    \* the App's activeTask state: None is null
    baseMood,
    activity,      \* "idle", "thinking"
    apiError,      \* the GeminiError shown by the retry banner, if any
    retryAction,   \* the operation the retry control re-runs: "none" is null
    therapyPc,     \* "idle", "generating", "recording", "assessing"
    closureTask,   \* activeTask as captured by the handleTherapyRecord in flight
    recordings,    \* recordings started in this session
    calls          \* `calls` of the last assessPronunciation, line 441

\* the practice state that the baseline assessment leaves alone
practiceVars == <<activeTask, baseMood, activity, apiError, retryAction,
                  therapyPc, closureTask, recordings, calls>>

therapyVars == <<memory, activeTask, baseMood, activity, apiError, retryAction,
                 therapyPc, closureTask, recordings, calls>>

InitTherapy ==
    /\ memory = INITIAL_MEMORY
    /\ activeTask = None
    /\ baseMood = "happy"
    /\ activity = "idle"
    /\ apiError = None
    /\ retryAction = "none"
    /\ therapyPc = "idle"
    /\ closureTask = None
    /\ recordings = 0
    /\ calls = <<>>

\* the id of the next generated task
NextTaskId == IF Len(memory.speechTasks) = 0 THEN "t1" ELSE "t2"

\* lines 441-463 of assessPronunciation: the updates object built from a
\* manageSpeechTask call
UpdatesOf(args) ==
    [status |-> args.status, urgency |-> args.urgency,
     report |-> IF TruthyStr(args.strengths) \/ TruthyStr(args.needsWork)
                    \/ TruthyStr(args.howToHelp)
                THEN Some([strengths |-> args.strengths, needsWork |-> args.needsWork,
                           howToHelp |-> args.howToHelp])
                ELSE None]

\* updates.report?.howToHelp || ''
HowToHelpOf(updates) ==
    IF updates.report # None /\ TruthyStr(updates.report[1].howToHelp)
    THEN updates.report[1].howToHelp[1] ELSE <<>>

\* updatedTask of the onTaskUpdate callback, lines 634-639: built from the
\* activeTask of the handler's closure
UpdatedTaskLocalBookkeeping(task, updates) ==
    [task EXCEPT !.status = IF task.status = "mastered" THEN "mastered" ELSE "in_progress",
                 !.urgency = updates.urgency,
                 !.report = IF updates.report # None THEN updates.report ELSE @,
                 !.attempts = @ + 1,
                 !.history = Append(@, HowToHelpOf(updates))]

UpdatedTask(task, updates) ==
    [task EXCEPT !.status = updates.status,
                 !.urgency = updates.urgency,
                 !.report = IF updates.report # None THEN updates.report ELSE @,
                 !.attempts = @ + 1,
                 !.history = Append(@, HowToHelpOf(updates))]

\* prev.speechTasks?.map(t => t.id === taskId ? updatedTask : t)
MapTasks(speechTasks, taskId, updatedTask) ==
    [i \in 1..Len(speechTasks) |->
        IF speechTasks[i].id = taskId THEN updatedTask ELSE speechTasks[i]]

\* the onTaskUpdate callback of handleTherapyRecord, lines 633-679, applied to the
\* state st = [memory, activeTask, baseMood] left by the calls before it
OnTaskUpdate(st, task, taskId, updates) ==
    LET updatedTask == UpdatedTask(task, updates)
        prev == st.memory
        currentStats == CurrentStats(prev.phonemeStats, task.targetPhoneme[1])
        isSuccess == updates.status = "mastered"
        counted == [attempts |-> currentStats.attempts + 1,
                    success |-> currentStats.success + (IF isSuccess THEN 1 ELSE 0)]
    IN [st EXCEPT
          !.memory =
             IF task.targetPhoneme # None
             THEN [prev EXCEPT
                     !.phonemeStats = WithStats(@, task.targetPhoneme[1], counted),
                     !.speechTasks = MapTasks(@, taskId, updatedTask)]
             ELSE [prev EXCEPT !.speechTasks = MapTasks(@, taskId, updatedTask)],
          !.activeTask = Some(updatedTask)]

OnCallAnyName(st, task, call) ==
    IF call.name = "setMood"
    THEN OnTaskUpdate([st EXCEPT !.baseMood = call.args.mood[1]], task,
                      call.args.taskId, UpdatesOf(call.args))
    ELSE OnTaskUpdate(st, task, call.args.taskId, UpdatesOf(call.args))

\* the body of `for (const call of calls)`, lines 443-463
OnCall(st, task, call) ==
    IF call.name = "setMood" THEN [st EXCEPT !.baseMood = call.args.mood[1]]
    ELSE IF call.name = "manageSpeechTask"
    THEN OnTaskUpdate(st, task, call.args.taskId, UpdatesOf(call.args))
    ELSE st

RECURSIVE OnCalls(_, _, _)
OnCalls(st, task, rest) ==
    IF rest = <<>> THEN st
    ELSE OnCalls(OnCall(st, task, Head(rest)), task, Tail(rest))

\* content.parts.filter(p => !!p.functionCall).map(p => p.functionCall), line 441
AssessedCalls(content) ==
    IF content = None THEN <<>>
    ELSE LET ps == SelectSeq(content[1], HasFunctionCall)
         IN [i \in 1..Len(ps) |-> ps[i].functionCall[1]]

\* lines 465-469: the first part with non-empty text, or the fixed utterance
FeedbackOf(content) ==
    LET ps == IF content = None THEN <<>>
              ELSE SelectSeq(content[1], LAMBDA p : TruthyStr(p.text))
    IN IF ps # <<>> THEN ps[1].text[1] ELSE HearAgainUtterance

\* handleApiOperation, lines 96-112: the catch clause for a GeminiError
SurfaceError(error, operation) ==
    /\ apiError' = Some(error)
    /\ retryAction' = operation
    /\ activity' = "idle"

\* handleStartTherapyTask is entered, lines 564-574 (through handleApiOperation,
\* lines 97-98); the controls that call it are disabled while the panel is loading
StartTherapyTask ==
    /\ therapyPc = "idle"
    /\ activity # "thinking"
    /\ Len(memory.speechTasks) < Cardinality(TaskIds)
    /\ apiError' = None
    /\ retryAction' = "none"
    /\ activity' = "thinking"
    /\ therapyPc' = "generating"
    /\ UNCHANGED <<memory, activeTask, baseMood, closureTask, recordings, calls>>

\* generateTherapyTask resolves with a task, lines 394-406; handleStartTherapyTask
\* stores it and speaks the intro, lines 576-583 (speakText first stops the audio
\* in flight, which sets the activity to idle)
GenerateTaskResolves ==
    /\ therapyPc = "generating"
    /\ \E result \in GenerationTexts :
          /\ Parses(result)
          /\ result.word # None
          /\ LET newTask ==
                   NewTask(NextTaskId, result.word[1],
                           IF result.targetPhoneme # None THEN result.targetPhoneme
                           ELSE Some(FirstLetter(result.word[1])))
             IN /\ memory' = [memory EXCEPT !.speechTasks = Append(@, newTask)]
                /\ activeTask' = Some(newTask)
    /\ activity' = "idle"
    /\ therapyPc' = "idle"
    /\ UNCHANGED <<baseMood, apiError, retryAction, closureTask, recordings, calls>>

\* the errors thrown inside the operation wrapped by generateTherapyTask: the
\* remote call fails, JSON.parse throws, or the parsed data has no word
GenerationErrors ==
    RemoteErrors
      \cup {ParseError : result \in {r \in GenerationTexts : ~Parses(r)}}
      \cup {InvalidFormat : result \in {r \in GenerationTexts : Parses(r) /\ r.word = None}}

\* generateTherapyTask rejects: withErrorHandling rethrows the error as a
\* GeminiError, which handleApiOperation surfaces
GenerateTaskRejects ==
    /\ therapyPc = "generating"
    /\ \E error \in GenerationErrors : SurfaceError(Reclassify(error), "startTask")
    /\ therapyPc' = "idle"
    /\ UNCHANGED <<memory, activeTask, baseMood, closureTask, recordings, calls>>

\* TherapyPanel.startGame, lines 196-215: the start control is rendered while the
\* panel shows a task and is neither recording nor loading; the recorder's onstop
\* handler keeps the onRecord of this render, which closes over its activeTask
StartGame ==
    /\ therapyPc = "idle"
    /\ activity # "thinking"
    /\ activeTask # None
    /\ recordings < MaxRecordings
    /\ therapyPc' = "recording"
    /\ closureTask' = activeTask
    /\ recordings' = recordings + 1
    /\ calls' = <<>>
    /\ UNCHANGED <<memory, activeTask, baseMood, activity, apiError, retryAction>>

\* the recorder stops and hands the blob to handleTherapyRecord, lines 592-627
TherapyRecord ==
    /\ therapyPc = "recording"
    /\ apiError' = None
    /\ retryAction' = "none"
    /\ IF closureTask = None
       THEN therapyPc' = "idle" /\ UNCHANGED activity
       ELSE therapyPc' = "assessing" /\ activity' = "thinking"
    /\ UNCHANGED <<memory, activeTask, baseMood, closureTask, recordings, calls>>

\* assessPronunciation resolves, lines 437-469, having run the callbacks of the
\* response's function calls; handleTherapyRecord speaks the feedback, line 683
AssessmentResolves ==
    /\ therapyPc = "assessing"
    /\ \E content \in AssessmentResponses :
          LET st == OnCalls([memory |-> memory, activeTask |-> activeTask,
                             baseMood |-> baseMood],
                            closureTask[1], AssessedCalls(content))
          IN /\ memory' = st.memory
             /\ activeTask' = st.activeTask
             /\ baseMood' = st.baseMood
             /\ calls' = AssessedCalls(content)
    /\ activity' = "idle"
    /\ therapyPc' = "idle"
    /\ UNCHANGED <<apiError, retryAction, closureTask, recordings>>

\* assessPronunciation rejects with the GeminiError of withErrorHandling
AssessmentRejects ==
    /\ therapyPc = "assessing"
    /\ \E error \in RemoteErrors : SurfaceError(Reclassify(error), "record")
    /\ therapyPc' = "idle"
    /\ UNCHANGED <<memory, activeTask, baseMood, closureTask, recordings, calls>>

\* TherapyPanel, lines 470-491: the skip control is rendered under the start
\* control, for a task with three attempts or more
SkipThreshold == 3

SkipShown ==
    /\ activeTask # None
    /\ therapyPc # "recording"
    /\ activity # "thinking"
    /\ activeTask[1].attempts >= SkipThreshold

\* handleLoadTask, lines 698-706: a task of the word bank is opened, or the task
\* view is left (null)
LoadTask ==
    /\ \E task \in {None} \cup {Some(memory.speechTasks[i]) : i \in 1..Len(memory.speechTasks)} :
          activeTask' = task
    /\ activity' = "idle"
    /\ UNCHANGED <<memory, baseMood, apiError, retryAction, therapyPc, closureTask,
                   recordings, calls>>

\* the updateMemory calls that are enumerated: [key, action]
MemoryUpdates ==
    {<<"childName", "set">>, <<"phonemeStats", "set">>, <<"phonemeStats", "add">>}

\* an updateMemory tool call of a chat response reaches updateMemoryState
\* (executeChat line 286, onMemoryUpdate)
ChatUpdatesMemory ==
    /\ \E update \in MemoryUpdates :
          memory' = updateMemoryState(memory, update[1], "Sam", update[2])
    /\ UNCHANGED <<activeTask, baseMood, activity, apiError, retryAction, therapyPc,
                   closureTask, recordings, calls>>

\* SafeguardingModal.handleSaveSettings, lines 48-56: the settings keys are set
SaveSettings ==
    /\ memory' = updateMemoryState(memory, "childName", "Sam", "set")
    /\ UNCHANGED <<activeTask, baseMood, activity, apiError, retryAction, therapyPc,
                   closureTask, recordings, calls>>

----------------------------------------------------------------------------
(* The baseline assessment: analyzeBaseline (services/geminiService.ts      *)
(* 153-212) and TherapyPanel.finishBaseline                                 *)

\* the analysis object of a well-formed response
FullAnalysis ==
    [results |-> Some(<<"Baby", "Rabbit">>), summary |-> Some(<<"Good", "start">>),
     recommendedStartingPoint |-> Some(<<"Middle 8">>)]

NoFields == [results |-> None, summary |-> None, recommendedStartingPoint |-> None]

\* result.text of the analysis call: undefined, text that is not JSON, and the JSON
\* texts "null", "{}", an object with a summary only, and the full structure; the
\* parsed value is None for null
BaselineTexts ==
    { [text |-> FALSE, json |-> FALSE, value |-> None],
      [text |-> TRUE, json |-> FALSE, value |-> None],
      [text |-> TRUE, json |-> TRUE, value |-> None],
      [text |-> TRUE, json |-> TRUE, value |-> Some(NoFields)],
      [text |-> TRUE, json |-> TRUE,
       value |-> Some([NoFields EXCEPT !.summary = Some(<<"Good", "start">>)])],
      [text |-> TRUE, json |-> TRUE, value |-> Some(FullAnalysis)] }

\* JSON.parse(result.text || '{}'), line 210, of a text that parses
Parsed(result) == IF result.text THEN result.value ELSE Some(NoFields)

VARIABLES
    panelMode,        \* TherapyPanel's mode: "practice", "baseline"
    baselinePc,       \* "idle", "analyzing" (isBaselineAnalyzing)
    baselineError,    \* TherapyPanel's baselineError
    baselineResult    \* the response the last analysis call resolved with, if it did

baselineVars == <<panelMode, baselinePc, baselineError, baselineResult>>

InitBaseline ==
    /\ panelMode = "practice"
    /\ baselinePc = "idle"
    /\ baselineError = None
    /\ baselineResult = None

\* the "start baseline" control of the panel without a task, lines 333-338
OpenBaseline ==
    /\ panelMode = "practice"
    /\ activeTask = None
    /\ memory.baseline = None
    /\ panelMode' = "baseline"
    /\ UNCHANGED <<baselinePc, baselineError, baselineResult, memory>>

\* finishBaseline is entered, lines 145-149: after the last word was recorded, or
\* by the retry control of the error screen
FinishBaseline ==
    /\ panelMode = "baseline"
    /\ baselinePc = "idle"
    /\ baselineError' = None
    /\ baselinePc' = "analyzing"
    /\ baselineResult' = None
    /\ UNCHANGED <<panelMode, memory>>

\* analyzeBaseline resolves with the parsed text; finishBaseline stores the
\* baseline through updateMemoryState('baseline', ..., 'set') and returns to the
\* practice view, lines 151-159 (date, a time stamp, is left out); reading a
\* field of null throws a TypeError, which the catch clause only reports
BaselineResolves ==
    /\ baselinePc = "analyzing"
    /\ \E result \in {r \in BaselineTexts : Parses(r)} :
          /\ baselineResult' = Some(result)
          /\ IF Parsed(result) = None
             THEN UNCHANGED <<memory, panelMode>>
             ELSE /\ memory' = [memory EXCEPT !.baseline = Parsed(result)]
                  /\ panelMode' = "practice"
    /\ baselinePc' = "idle"
    /\ UNCHANGED baselineError

\* the errors thrown inside the operation wrapped by analyzeBaseline
BaselineErrors ==
    RemoteErrors \cup {ParseError : result \in {r \in BaselineTexts : ~Parses(r)}}

\* analyzeBaseline rejects with the GeminiError of withErrorHandling; finishBaseline
\* shows it on the error screen, lines 160-162
BaselineRejects ==
    /\ baselinePc = "analyzing"
    /\ \E error \in BaselineErrors : baselineError' = Some(Reclassify(error))
    /\ baselinePc' = "idle"
    /\ UNCHANGED <<panelMode, memory, baselineResult>>

\* "Cancel and go back" of the error screen, lines 259-264
CancelBaseline ==
    /\ panelMode = "baseline"
    /\ baselineError # None
    /\ panelMode' = "practice"
    /\ UNCHANGED <<baselinePc, baselineError, baselineResult, memory>>

----------------------------------------------------------------------------
(* The interactive story: handleStartStory, handleContinueStory,            *)
(* handleResetStory (App), StoryPanel.handleStart / handleUseItem and the   *)
(* story generators of GeminiService                                       *)

\* INITIAL_STORY_STATE (theme stands for the inputs theme, hero and animal; items
\* is the list item1..item3 without its empty entries)
INITIAL_STORY_STATE ==
    [hasStarted |-> FALSE, theme |-> "", items |-> <<>>, availableItems |-> <<>>,
     segments |-> <<>>]

\* the item lists StoryPanel.handleStart hands to onStartStory: the non-empty
\* ones of three typed items, which may repeat
StoryItems ==
    {<<"Map", "Key", "Compass">>, <<"Map", "Key">>, <<"Key">>, <<"Key", "Key">>}

StoryText == <<"Once", "upon", "a", "time">>

StuckUtterance == <<"The pages of the book got stuck! Let's try that again.">>

\* callStoryModel, lines 541-550: result.text || the fixed utterance
StoryResults == {Some(StoryText), Some(<<>>), None}

CallStoryModel(result) == IF TruthyStr(result) THEN result[1] ELSE StuckUtterance

\* storyState.availableItems.filter(i => i !== item), StoryPanel.handleUseItem
RemainingDropsFirst(availableItems, item) == Tail(availableItems)

Remaining(availableItems, item) == SelectSeq(availableItems, LAMBDA i : i # item)

\* the generator handleContinueStory calls, lines 477-481
GeneratorByLastItem(remainingItems) ==
    IF Len(remainingItems) > 1 THEN "chapter" ELSE "conclusion"

Generator(remainingItems) ==
    IF Len(remainingItems) > 0 THEN "chapter" ELSE "conclusion"

\* a story segment: the text the model returned, with the generator that was
\* called for it and the item its prompt names
Segment(by, uses, text) == [by |-> by, uses |-> uses, text |-> text]

\* the story generation in flight: none, or the generator called with its item and
\* the remaining items of the handler's closure
NoStoryCall == [by |-> "none", item |-> "", remainingItems |-> <<>>]

VARIABLES
    storyState,    \* the App's storyState
    storyPc,       \* "idle", "starting", "continuing"
    storyCall      \* the generation call of the story handler in flight

storyVars == <<storyState, storyPc, storyCall>>

InitStory ==
    /\ storyState = INITIAL_STORY_STATE
    /\ storyPc = "idle"
    /\ storyCall = NoStoryCall

\* the App state the story handlers leave alone
taskVars == <<memory, activeTask, baseMood, therapyPc, closureTask, recordings, calls>>

\* StoryPanel.handleStart, lines 210-227, and handleStartStory up to its await,
\* lines 444-461; the start control is disabled while a generation is in flight
StartStory ==
    /\ storyPc = "idle"
    /\ activity # "thinking"
    /\ ~storyState.hasStarted
    /\ \E items \in StoryItems :
          storyState' = [hasStarted |-> TRUE, theme |-> "pirates", items |-> items,
                         availableItems |-> items, segments |-> <<>>]
    /\ apiError' = None
    /\ retryAction' = "none"
    /\ activity' = "thinking"
    /\ storyPc' = "starting"
    /\ storyCall' = [by |-> "intro", item |-> "", remainingItems |-> <<>>]
    /\ UNCHANGED taskVars

\* StoryPanel.handleUseItem, lines 271-274, and handleContinueStory up to its
\* await, lines 468-481; the item controls are rendered in the story view once a
\* segment is there and no generation is in flight
ContinueStory ==
    /\ storyPc = "idle"
    /\ activity # "thinking"
    /\ storyState.hasStarted
    /\ Len(storyState.segments) > 0
    /\ \E i \in 1..Len(storyState.availableItems) :
          LET item == storyState.availableItems[i]
              remainingItems == Remaining(storyState.availableItems, item)
          IN storyCall' = [by |-> Generator(remainingItems), item |-> item,
                           remainingItems |-> remainingItems]
    /\ apiError' = None
    /\ retryAction' = "none"
    /\ activity' = "thinking"
    /\ storyPc' = "continuing"
    /\ UNCHANGED <<storyState, taskVars>>

\* the generator resolves; the handler stores the segment with a functional update
\* of the state of that moment, lines 463 and 483-487, and speaks it
StoryResolves ==
    /\ storyPc \in {"starting", "continuing"}
    /\ \E result \in StoryResults :
          LET segment == Segment(storyCall.by, storyCall.item, CallStoryModel(result))
          IN storyState' =
                IF storyPc = "starting"
                THEN [storyState EXCEPT !.segments = <<segment>>]
                ELSE [storyState EXCEPT !.availableItems = storyCall.remainingItems,
                                        !.segments = Append(@, segment)]
    /\ activity' = "idle"
    /\ storyPc' = "idle"
    /\ storyCall' = NoStoryCall
    /\ UNCHANGED <<apiError, retryAction, taskVars>>

\* the generator rejects with the GeminiError of withErrorHandling
StoryRejects ==
    /\ storyPc \in {"starting", "continuing"}
    /\ \E error \in RemoteErrors :
          SurfaceError(Reclassify(error),
                       IF storyPc = "starting" THEN "startStory" ELSE "continueStory")
    /\ storyPc' = "idle"
    /\ storyCall' = NoStoryCall
    /\ UNCHANGED <<storyState, taskVars>>

\* handleResetStory, lines 492-494: the Back control of the story view and "Tell
\* Another Story" are enabled at all times
ResetStory ==
    /\ storyState.hasStarted
    /\ storyState' = INITIAL_STORY_STATE
    /\ UNCHANGED <<storyPc, storyCall, activity, apiError, retryAction, taskVars>>

\* StoryPanel.isFinished, line 276
isFinished ==
    /\ storyState.hasStarted
    /\ Len(storyState.availableItems) = 0
    /\ activity # "thinking"
    /\ Len(storyState.segments) > 0

----------------------------------------------------------------------------
(* Audio utilities, services/audioUtils.ts: pcmToAudioBuffer,               *)
(* concatenateAudioBuffers, audioBufferToWav                                *)
(*                                                                         *)
(* A Float32 sample is NaN or a multiple of 2^-16, held as its number of    *)
(* units; a byte is a number in 0..255.                                     *)

\* the units in 1.0
FloatOne == 65536

Float(n) == [nan |-> FALSE, n |-> n]

NaN == [nan |-> TRUE, n |-> 0]

\* the bytes the inputs are built from: the low, middle and high values of each
\* half of a 16-bit sample
Bytes == {0, 1, 127, 128, 255}

MaxBytes == 4

MaxSamples == 2

MaxBuffers == 2

SampleRates == {24000, 48000}

RECURSIVE SeqsUpTo(_, _)
\* the sequences over S of length at most n
SeqsUpTo(S, n) ==
    IF n = 0 THEN {<<>>}
    ELSE LET shorter == SeqsUpTo(S, n - 1)
         IN shorter \cup {Append(q, x) : q \in {r \in shorter : Len(r) = n - 1}, x \in S}

\* element i of new Int16Array(buffer) read as an unsigned number, little-endian
Int16ReadsUnsigned(data, i) == data[2 * i - 1] + 256 * data[2 * i]

\* element i of new Int16Array(buffer), little-endian two's complement
Int16At(data, i) ==
    LET u == data[2 * i - 1] + 256 * data[2 * i]
    IN IF u >= 32768 THEN u - 65536 ELSE u

\* an AudioBuffer of one channel
AudioBuffer(sampleRate, channelData) ==
    [sampleRate |-> sampleRate, channelData |-> channelData]

\* the outcome of a call: the value returned, or the name of the error thrown
Returned(value) == [error |-> "none", value |-> Some(value)]

Thrown(name) == [error |-> name, value |-> None]

\* new Int16Array(data.buffer) of a buffer with half a sample at its end: the
\* trailing byte dropped
PcmTruncatesOddInput(data, sampleRate) ==
    IF Len(data) \div 2 = 0 THEN Thrown("NotSupportedError")
    ELSE Returned(AudioBuffer(sampleRate,
            [i \in 1..(Len(data) \div 2) |-> Float(2 * Int16At(data, i))]))

\* pcmToAudioBuffer, lines 2-17.  new Int16Array(data.buffer) throws a RangeError
\* when the byte length is odd, and createBuffer a NotSupportedError for a length
\* of 0 frames; pcm16[i] / 32768.0 is exact in Float32
pcmToAudioBuffer(data, sampleRate) ==
    IF Len(data) % 2 # 0 THEN Thrown("RangeError")
    ELSE IF Len(data) \div 2 = 0 THEN Thrown("NotSupportedError")
    ELSE Returned(AudioBuffer(sampleRate,
            [i \in 1..(Len(data) \div 2) |-> Float(2 * Int16At(data, i))]))

RECURSIVE TotalLength(_)
\* buffers.forEach(b => totalLength += b.length), line 23
TotalLength(buffers) ==
    IF buffers = <<>> THEN 0
    ELSE Len(Head(buffers).channelData) + TotalLength(Tail(buffers))

RECURSIVE CopiedInReverse(_)
\* the buffers copied with the last one first
CopiedInReverse(buffers) ==
    IF buffers = <<>> THEN <<>>
    ELSE CopiedInReverse(Tail(buffers)) \o Head(buffers).channelData

RECURSIVE Copied(_)
\* the second forEach, lines 28-35: each buffer copied at the running offset
Copied(buffers) ==
    IF buffers = <<>> THEN <<>>
    ELSE Head(buffers).channelData \o Copied(Tail(buffers))

\* concatenateAudioBuffers, lines 19-38; null is None
concatenateAudioBuffers(buffers) ==
    IF Len(buffers) = 0 THEN Returned(None)
    ELSE IF TotalLength(buffers) = 0 THEN Thrown("NotSupportedError")
    ELSE Returned(Some(AudioBuffer(Head(buffers).sampleRate, Copied(buffers))))

\* DataView.setUint32(offset, value) without the littleEndian flag
Uint32BigEndian(value) ==
    << (value \div 16777216) % 256, (value \div 65536) % 256, (value \div 256) % 256,
       value % 256 >>

\* DataView.setUint32(offset, value, true): the low four bytes of value
Uint32LE(value) ==
    << value % 256, (value \div 256) % 256, (value \div 65536) % 256,
       (value \div 16777216) % 256 >>

\* DataView.setUint16(offset, value, true)
Uint16LE(value) ==
    LET v == value % 65536
    IN << v % 256, (v \div 256) % 256 >>

\* the truncation of the quotient a / b toward zero (b > 0)
Truncate(a, b) == IF a >= 0 \/ a % b = 0 THEN a \div b ELSE (a \div b) + 1

\* Math.max(-1, Math.min(1, x)), line 74; NaN stays NaN
Clamp(x) ==
    IF x.nan THEN NaN
    ELSE Float(IF x.n > FloatOne THEN FloatOne
               ELSE IF x.n < -FloatOne THEN -FloatOne ELSE x.n)

\* the integer setInt16 stores for sample < 0 ? sample * 0x8000 : sample * 0x7FFF,
\* line 76: NaN is stored as 0 and a fraction is truncated toward zero
Scaled(sample) ==
    IF sample.nan THEN 0
    ELSE IF sample.n < 0 THEN Truncate(sample.n * 32768, FloatOne)
    ELSE Truncate(sample.n * 32767, FloatOne)

\* DataView.setInt16(offset, value, true): value mod 2^16 in two's complement
Int16LE(value) == Uint16LE(value % 65536)

RECURSIVE SampleBytes(_)
\* the loop of lines 73-78
SampleBytes(channelData) ==
    IF channelData = <<>> THEN <<>>
    ELSE Int16LE(Scaled(Clamp(Head(channelData)))) \o SampleBytes(Tail(channelData))

\* the character codes writeString stores
RIFF == <<82, 73, 70, 70>>

WAVE == <<87, 65, 86, 69>>

FMT == <<102, 109, 116, 32>>

DATA == <<100, 97, 116, 97>>

\* audioBufferToWav, lines 40-81: the bytes of the Blob
audioBufferToWav(buffer) ==
    LET numChannels == 1
        sampleRate == buffer.sampleRate
        format == 1
        bitDepth == 16
        dataLength == Len(buffer.channelData) * numChannels * 2
    IN RIFF \o Uint32LE(36 + dataLength) \o WAVE \o FMT \o Uint32LE(16)
       \o Uint16LE(format) \o Uint16LE(numChannels) \o Uint32LE(sampleRate)
       \o Uint32LE(sampleRate * numChannels * 2) \o Uint16LE(numChannels * 2)
       \o Uint16LE(bitDepth) \o DATA \o Uint32LE(dataLength)
       \o SampleBytes(buffer.channelData)

\* the Float32 samples the buffers handed to audioBufferToWav are built from: NaN,
\* zero, fractions the scaling truncates, full scale and values out of range
FloatSamples ==
    {NaN, Float(0), Float(1), Float(-1), Float(-3), Float(FloatOne), Float(-FloatOne),
     Float(70000), Float(-70000)}

\* the samples the buffers handed to concatenateAudioBuffers are built from
SegmentSamples == {Float(0), Float(-3)}

\* the AudioBuffers of a sample rate over a set of samples; an AudioBuffer has at
\* least one frame
AudioBuffers(sampleRate, samples) ==
    {AudioBuffer(sampleRate, d) : d \in SeqsUpTo(samples, MaxSamples) \ {<<>>}}

\* the lists of buffers of the calls: one buffer of any samples, or up to
\* MaxBuffers buffers sharing a sample rate
BufferLists ==
    UNION {{<<b>> : b \in AudioBuffers(r, FloatSamples)}
           \cup SeqsUpTo(AudioBuffers(r, SegmentSamples), MaxBuffers) : r \in SampleRates}

\* the default sampleRate of pcmToAudioBuffer, line 5
DefaultSampleRate == 24000

VARIABLES
    pcmData,       \* the bytes handed to pcmToAudioBuffer
    floatBuffers,  \* the buffers handed to concatenateAudioBuffers / audioBufferToWav
    decodeResult,  \* the outcome of pcmToAudioBuffer, once called
    wavResult,     \* the bytes audioBufferToWav returned, once called
    concatResult   \* the outcome of concatenateAudioBuffers, once called

audioVars == <<pcmData, floatBuffers, decodeResult, wavResult, concatResult>>

InitAudio ==
    /\ pcmData = <<>>
    /\ floatBuffers = <<>>
    /\ decodeResult = None
    /\ wavResult = None
    /\ concatResult = None

\* the inputs of the audio utilities: PCM bytes, or a list of buffers
InitAudioInputs ==
    /\ \/ pcmData \in SeqsUpTo(Bytes, MaxBytes) /\ floatBuffers = <<>>
       \/ pcmData = <<>> /\ floatBuffers \in BufferLists
    /\ decodeResult = None
    /\ wavResult = None
    /\ concatResult = None

\* pcmToAudioBuffer(data, ctx) as its callers call it
PcmToAudioBuffer ==
    /\ floatBuffers = <<>>
    /\ decodeResult = None
    /\ decodeResult' = Some(pcmToAudioBuffer(pcmData, DefaultSampleRate))
    /\ UNCHANGED <<pcmData, floatBuffers, wavResult, concatResult>>

\* audioBufferToWav of the buffer pcmToAudioBuffer returned (part_000 524-525)
WavOfDecoded ==
    /\ decodeResult # None
    /\ decodeResult[1].error = "none"
    /\ wavResult = None
    /\ wavResult' = Some(audioBufferToWav(decodeResult[1].value[1]))
    /\ UNCHANGED <<pcmData, floatBuffers, decodeResult, concatResult>>

\* audioBufferToWav of a buffer of any samples (blobToWavBase64, line 88)
AudioBufferToWav ==
    /\ floatBuffers # <<>>
    /\ wavResult = None
    /\ wavResult' = Some(audioBufferToWav(floatBuffers[1]))
    /\ UNCHANGED <<pcmData, floatBuffers, decodeResult, concatResult>>

\* concatenateAudioBuffers(buffers, ctx)
ConcatenateAudioBuffers ==
    /\ pcmData = <<>>
    /\ concatResult = None
    /\ concatResult' = Some(concatenateAudioBuffers(floatBuffers))
    /\ UNCHANGED <<pcmData, floatBuffers, decodeResult, wavResult>>

----------------------------------------------------------------------------
(* The audiobook of a story: handleDownloadStoryAudio (App) over            *)
(* GeminiService.generateSpeech                                             *)

\* the PCM bytes generateSpeech returns for a segment
SpeechAudio == {<<1, 0>>, <<0, 128, 255, 127>>}

\* what generateSpeech resolves with, lines 609-613: the bytes, or null when the
\* response carries no inline data
SpeechResults == {Some(a) : a \in SpeechAudio} \cup {None}

RECURSIVE Combined(_)
\* combined.set(arr, offset) for each array of allAudio, lines 514-520
Combined(allAudio) ==
    IF allAudio = <<>> THEN <<>> ELSE Head(allAudio) \o Combined(Tail(allAudio))

\* how a download ended: not yet, with the file offered, or with the alert
NoOutcome == [kind |-> "none", file |-> <<>>]

FileOutcome(bytes) == [kind |-> "file", file |-> bytes]

AlertOutcome == [kind |-> "alert", file |-> <<>>]

\* lines 512-533 once the loop has ended: the file, or the alert of the catch block
Assembled(allAudio) ==
    IF Len(allAudio) = 0 THEN AlertOutcome
    ELSE LET decoded == pcmToAudioBuffer(Combined(allAudio), DefaultSampleRate)
         IN IF decoded.error # "none" THEN AlertOutcome
            ELSE FileOutcome(audioBufferToWav(decoded.value[1]))

VARIABLES
    bookPc,        \* "idle", "synthesizing", "assembling"
    bookSegments,  \* storyState.segments of the handler's closure
    speechCalls,   \* the segments generateSpeech has been called with, in call order
    speechResults, \* how each call ended: "audio", "null" or "error"
    allAudio,      \* the handler's allAudio
    bookOutcome    \* how the last download ended

bookVars == <<bookPc, bookSegments, speechCalls, speechResults, allAudio, bookOutcome>>

InitBook ==
    /\ bookPc = "idle"
    /\ bookSegments = <<>>
    /\ speechCalls = <<>>
    /\ speechResults = <<>>
    /\ allAudio = <<>>
    /\ bookOutcome = NoOutcome

\* handleDownloadStoryAudio up to its first await, lines 496-506; the download
\* control is rendered when the story is finished (constants.ts 415-424)
DownloadStoryAudio ==
    /\ bookPc = "idle"
    /\ isFinished
    /\ Len(storyState.segments) # 0
    /\ activity' = "thinking"
    /\ bookSegments' = storyState.segments
    /\ speechCalls' = <<storyState.segments[1]>>
    /\ speechResults' = <<>>
    /\ allAudio' = <<>>
    /\ bookOutcome' = NoOutcome
    /\ bookPc' = "synthesizing"
    /\ UNCHANGED <<apiError, retryAction, taskVars, storyVars>>

\* generateSpeech resolves, lines 506-509: the next call of the loop, or its end
SpeechResolves ==
    /\ bookPc = "synthesizing"
    /\ \E audio \in SpeechResults :
          /\ allAudio' = IF audio # None THEN Append(allAudio, audio[1]) ELSE allAudio
          /\ speechResults' = Append(speechResults, IF audio # None THEN "audio" ELSE "null")
    /\ IF Len(speechCalls) < Len(bookSegments)
       THEN /\ speechCalls' = Append(speechCalls, bookSegments[Len(speechCalls) + 1])
            /\ UNCHANGED bookPc
       ELSE /\ bookPc' = "assembling"
            /\ UNCHANGED speechCalls
    /\ UNCHANGED <<bookSegments, bookOutcome, activity, apiError, retryAction, taskVars,
                   storyVars>>

\* lines 512-538 after the loop; the handler returns and its locals are gone
AssembleAudiobook ==
    /\ bookPc = "assembling"
    /\ bookOutcome' = Assembled(allAudio)
    /\ activity' = "idle"
    /\ bookPc' = "idle"
    /\ bookSegments' = <<>>
    /\ speechCalls' = <<>>
    /\ speechResults' = <<>>
    /\ allAudio' = <<>>
    /\ UNCHANGED <<apiError, retryAction, taskVars, storyVars>>

\* generateSpeech rejects with the GeminiError of withErrorHandling: the catch
\* block of lines 534-536 around the whole loop
SpeechRejects ==
    /\ bookPc = "synthesizing"
    /\ bookOutcome' = AlertOutcome
    /\ activity' = "idle"
    /\ bookPc' = "idle"
    /\ bookSegments' = <<>>
    /\ speechCalls' = <<>>
    /\ speechResults' = <<>>
    /\ allAudio' = <<>>
    /\ UNCHANGED <<apiError, retryAction, taskVars, storyVars>>

----------------------------------------------------------------------------
(* Playback of synthesized speech: stopCurrentAudio, speakText and          *)
(* playAudioBuffer (App), with the Gemini speech engine                     *)

MaxSpeech == 4

VARIABLES
    speechCount,         \* the speakText calls made so far
    synthesizing,        \* the speakText calls awaiting generateSpeech
    currentAudioSource,  \* currentAudioSource.current: None, or the source of a call
    playing              \* the sources started and neither stopped nor ended

playVars == <<speechCount, synthesizing, currentAudioSource, playing>>

InitPlay ==
    /\ speechCount = 0
    /\ synthesizing = {}
    /\ currentAudioSource = None
    /\ playing = {}

\* speakText up to its await, lines 293-316, stopCurrentAudio (277-290) included:
\* the source in currentAudioSource is stopped and released
SpeakText ==
    /\ speechCount < MaxSpeech
    /\ speechCount' = speechCount + 1
    /\ playing' = IF currentAudioSource # None THEN playing \ {currentAudioSource[1]}
                  ELSE playing
    /\ currentAudioSource' = None
    /\ activity' = "idle"
    /\ synthesizing' = synthesizing \cup {speechCount + 1}
    /\ UNCHANGED <<apiError, retryAction, taskVars>>

\* playAudioBuffer, lines 334-356: the new source takes the place of the one in
\* currentAudioSource and is started
playAudioBuffer(id, pcm) ==
    IF pcmToAudioBuffer(pcm, DefaultSampleRate).error # "none"
    THEN /\ activity' = "idle"
         /\ UNCHANGED <<currentAudioSource, playing>>
    ELSE /\ currentAudioSource' = Some(id)
         /\ activity' = "talking"
         /\ playing' = playing \cup {id}

\* generateSpeech resolves for a speakText call, lines 317-327
SpeechArrives ==
    /\ \E id \in synthesizing, audio \in SpeechResults :
          /\ synthesizing' = synthesizing \ {id}
          /\ IF audio # None
             THEN playAudioBuffer(id, audio[1])
             ELSE /\ activity' = "idle"
                  /\ UNCHANGED <<currentAudioSource, playing>>
    /\ UNCHANGED <<speechCount, apiError, retryAction, taskVars>>

\* generateSpeech rejects for a speakText call, lines 328-331
SpeechFails ==
    /\ \E id \in synthesizing : synthesizing' = synthesizing \ {id}
    /\ activity' = "idle"
    /\ UNCHANGED <<speechCount, currentAudioSource, playing, apiError, retryAction,
                   taskVars>>

\* a source plays to its end: source.onended, lines 343-348
SourceEnds ==
    /\ \E id \in playing :
          /\ playing' = playing \ {id}
          /\ IF currentAudioSource = Some(id)
             THEN activity' = "idle" /\ currentAudioSource' = None
             ELSE UNCHANGED <<activity, currentAudioSource>>
    /\ UNCHANGED <<speechCount, synthesizing, apiError, retryAction, taskVars>>

----------------------------------------------------------------------------
(* The error banner: components/ApiStatusMessage.tsx, rendered by the App    *)
(* while apiError and retryAction are set (part_000 925-929)                 *)

MaxOperations == 2

\* the GeminiErrors of the three classes of the constructor
SurfacedErrors ==
    {GeminiError(None, status) : status \in {Some(QuotaStatus), Some(OverloadStatus), None}}

\* the interval of the second effect, lines 25-27
TickLength == 1000

\* the test of the second effect with < for <=
CountdownOverBelowZero(t) == t < 0

\* the test of the second effect, line 20
CountdownOver(t) == t <= 0

VARIABLES
    operations,  \* the handleApiOperation calls in flight
    timeLeft,    \* ApiStatusMessage's timeLeft (0 while the banner is not rendered)
    canRetry,    \* ApiStatusMessage's canRetry
    ticks,       \* the ticks of the interval since the error was surfaced
    running      \* the operations of those calls, in the order they were started:
                 \* [name, retried], retried when the retry control started the call

bannerVars == <<operations, timeLeft, canRetry, ticks, running>>

InitBanner ==
    /\ operations = 0
    /\ timeLeft = 0
    /\ canRetry = FALSE
    /\ ticks = 0
    /\ running = <<>>

\* the operations that the handlers hand to handleApiOperation
OperationNames == {"send", "story"}

\* a retry action that re-runs the chat send whatever failed
RetryActionOfSend(operation) == "send"

\* () => handleApiOperation(operation), line 105: the retry action of an operation
RetryActionFor(operation) == operation

\* the banner is rendered
BannerShown == apiError # None /\ retryAction # "none"

\* handleApiOperation is entered, lines 96-99: the banner goes away
OperationStarts ==
    /\ operations < MaxOperations
    /\ operations' = operations + 1
    /\ \E name \in OperationNames :
          running' = Append(running, [name |-> name, retried |-> FALSE])
    /\ apiError' = None
    /\ retryAction' = "none"
    /\ timeLeft' = 0
    /\ canRetry' = FALSE
    /\ ticks' = 0
    /\ UNCHANGED <<activity, taskVars>>

\* the sequence without its element i
Without(q, i) == SubSeq(q, 1, i - 1) \o SubSeq(q, i + 1, Len(q))

\* the operation resolves
OperationSucceeds ==
    /\ operations > 0
    /\ operations' = operations - 1
    /\ \E i \in 1..Len(running) : running' = Without(running, i)
    /\ UNCHANGED <<timeLeft, canRetry, ticks, apiError, retryAction, activity, taskVars>>

\* the operation throws an error that is no GeminiError, lines 106-110: an alert,
\* and no banner
OperationThrows ==
    /\ operations > 0
    /\ operations' = operations - 1
    /\ \E i \in 1..Len(running) : running' = Without(running, i)
    /\ activity' = "idle"
    /\ UNCHANGED <<timeLeft, canRetry, ticks, apiError, retryAction, taskVars>>

\* the operation rejects with a GeminiError, lines 100-110, and the banner is
\* rendered with it: mounted (lines 10-11), or given the new error (first effect,
\* lines 13-17); the second effect runs when timeLeft has changed (lines 19-30)
OperationFails ==
    /\ operations > 0
    /\ operations' = operations - 1
    /\ \E error \in SurfacedErrors, i \in 1..Len(running) :
          /\ running' = Without(running, i)
          /\ SurfaceError(error, RetryActionFor(running[i].name))
          /\ timeLeft' = error.retryDelay
          /\ canRetry' = IF ~BannerShown \/ timeLeft' # timeLeft
                         THEN CountdownOver(timeLeft') ELSE FALSE
    /\ ticks' = 0
    /\ UNCHANGED taskVars

\* the interval fires, line 26, and the second effect runs again
Tick ==
    /\ BannerShown
    /\ ~CountdownOver(timeLeft)
    /\ timeLeft' = timeLeft - TickLength
    /\ canRetry' = (canRetry \/ CountdownOver(timeLeft'))
    /\ ticks' = ticks + 1
    /\ UNCHANGED <<operations, running, apiError, retryAction, activity, taskVars>>

\* the retry control, lines 48-50, calls retryAction: handleApiOperation again
Retry ==
    /\ BannerShown
    /\ canRetry
    /\ operations < MaxOperations
    /\ operations' = operations + 1
    /\ running' = Append(running, [name |-> retryAction, retried |-> TRUE])
    /\ apiError' = None
    /\ retryAction' = "none"
    /\ timeLeft' = 0
    /\ canRetry' = FALSE
    /\ ticks' = 0
    /\ UNCHANGED <<activity, taskVars>>

----------------------------------------------------------------------------
(* The recordings of a practice task as the panel admits them:              *)
(* TherapyPanel.startGame / stopGame and the handleTherapyRecord calls in    *)
(* flight, each with the activeTask of its closure                          *)

VARIABLES
    isRecording,  \* TherapyPanel's isRecording
    handlers      \* the handleTherapyRecord calls in flight: [task, stage], the stage
                  \* "decoding" (lines 598-604) or "assessing" (from line 606 on)

recordVars == <<isRecording, handlers>>

InitRecord ==
    /\ isRecording = FALSE
    /\ handlers = <<>>

\* TherapyPanel.startGame, lines 173-215; the start control is rendered while
\* !isRecording && !isLoading and disabled while isSpeaking (lines 470-474)
StartRecording ==
    /\ ~isRecording
    /\ activity \notin {"thinking", "talking"}
    /\ activeTask # None
    /\ recordings < MaxRecordings
    /\ isRecording' = TRUE
    /\ recordings' = recordings + 1
    /\ UNCHANGED <<handlers, memory, activeTask, baseMood, activity, apiError, retryAction,
                   therapyPc, closureTask, calls>>

\* TherapyPanel.stopGame, lines 222-229, and the recorder's onstop, lines 196-205:
\* the blob is handed to handleTherapyRecord, which runs up to its first await
\* (part_000 592-599)
HandRecording ==
    /\ isRecording
    /\ isRecording' = FALSE
    /\ apiError' = None
    /\ retryAction' = "none"
    /\ handlers' = IF activeTask = None THEN handlers
                   ELSE Append(handlers, [task |-> activeTask[1], stage |-> "decoding"])
    /\ UNCHANGED <<memory, activeTask, baseMood, activity, therapyPc, closureTask,
                   recordings, calls>>

\* the decoding of lines 598-604 has ended, well or not: line 606
RecordingDecoded ==
    /\ \E i \in 1..Len(handlers) :
          /\ handlers[i].stage = "decoding"
          /\ handlers' = [handlers EXCEPT ![i].stage = "assessing"]
    /\ activity' = "thinking"
    /\ UNCHANGED <<isRecording, memory, activeTask, baseMood, apiError, retryAction,
                   therapyPc, closureTask, recordings, calls>>

\* the sequence without its element i
RemoveAt(q, i) == SubSeq(q, 1, i - 1) \o SubSeq(q, i + 1, Len(q))

\* assessPronunciation returns to a handler, lines 628-683: the callbacks of the
\* response's calls have run and the feedback is spoken (speakText starts with
\* stopCurrentAudio)
RecordingAssessed ==
    /\ \E i \in 1..Len(handlers), content \in AssessmentResponses :
          /\ handlers[i].stage = "assessing"
          /\ LET st == OnCalls([memory |-> memory, activeTask |-> activeTask,
                                baseMood |-> baseMood],
                               handlers[i].task, AssessedCalls(content))
             IN /\ memory' = st.memory
                /\ activeTask' = st.activeTask
                /\ baseMood' = st.baseMood
                /\ calls' = AssessedCalls(content)
          /\ handlers' = RemoveAt(handlers, i)
    /\ activity' = "idle"
    /\ UNCHANGED <<isRecording, apiError, retryAction, therapyPc, closureTask, recordings>>

\* assessPronunciation rejects with the GeminiError of withErrorHandling
RecordingFails ==
    /\ \E i \in 1..Len(handlers), error \in RemoteErrors :
          /\ handlers[i].stage = "assessing"
          /\ SurfaceError(Reclassify(error), "record")
          /\ handlers' = RemoveAt(handlers, i)
    /\ UNCHANGED <<isRecording, memory, activeTask, baseMood, therapyPc, closureTask,
                   recordings, calls>>

----------------------------------------------------------------------------
(* The state document: handleSaveState, handleLoadState and                 *)
(* handleResumeChoice (App)                                                 *)
(*                                                                         *)
(* A JSON object is a record over the keys its text holds.  JSON.stringify  *)
(* leaves out a property whose value is undefined; reading a key that the   *)
(* parsed object lacks gives undefined.                                     *)

MaxMessages == 3

\* the optional properties of Memory and of SpeechTask, each with the value that
\* stands for undefined
OptionalMemory == [childName |-> Undefined, baseline |-> None]

OptionalTask == [targetPhoneme |-> None, urgency |-> None, report |-> None]

\* JSON.stringify of an object: the properties whose value is not undefined
StringifyObject(obj, optional) ==
    [k \in {key \in DOMAIN obj : ~(key \in DOMAIN optional /\ obj[key] = optional[key])}
        |-> obj[k]]

\* the object as the program reads it after JSON.parse: a key the text lacks reads
\* as undefined
ParseObject(json, optional) ==
    [k \in DOMAIN json \cup DOMAIN optional |->
        IF k \in DOMAIN json THEN json[k] ELSE optional[k]]

\* a document written without the story
StringifyWithoutStory(state) ==
    [memory |-> state.memory, chatHistory |-> state.chatHistory,
     character |-> state.character]

\* JSON.stringify(state, null, 2) of { memory, chatHistory, character, storyState },
\* line 723
Stringify(state) ==
    [memory |-> StringifyObject(
                    [state.memory EXCEPT !.speechTasks =
                        [i \in 1..Len(@) |-> StringifyObject(@[i], OptionalTask)]],
                    OptionalMemory),
     chatHistory |-> state.chatHistory,
     character |-> state.character,
     storyState |-> state.storyState]

\* json.memory of a parsed document
ParsedMemory(json) ==
    LET m == ParseObject(json.memory, OptionalMemory)
    IN [m EXCEPT !.speechTasks = [i \in 1..Len(@) |-> ParseObject(@[i], OptionalTask)]]

\* a file handed to handleLoadState: its text parses to an object, or does not
JsonFile(value) == [json |-> TRUE, value |-> value]

NotJsonFile == [json |-> FALSE, value |-> <<>>]

\* the file of the text "{}"
EmptyObjectFile == JsonFile(<<>>)

\* json.memory && json.chatHistory && json.character, line 748 (an object and an
\* array are truthy)
IsStateDocument(json) ==
    /\ "memory" \in DOMAIN json
    /\ "chatHistory" \in DOMAIN json
    /\ "character" \in DOMAIN json

\* the character of handleSelectCharacter, lines 709-719
TeddyCharacter == [type |-> "teddy", style |-> "neutral", name |-> "Teddy"]

ChatMessage(role, text) == [role |-> role, text |-> text]

InitialText == <<"Hi friend!">>

UserText == <<"hello">>

ResponseText == <<"Welcome", "back">>

VARIABLES
    character,       \* the CharacterProfile, or None (null)
    messages,        \* the chat history shown
    pendingHistory,  \* None (null), or the chat history of the imported document
    document,        \* the text of the last exported document, if any
    exported,        \* the application state that document was written from
    persistPc        \* "idle", "sending" (sendMessage in flight), "resuming"

persistVars == <<character, messages, pendingHistory, document, exported, persistPc>>

InitPersist ==
    /\ character = None
    /\ messages = <<>>
    /\ pendingHistory = None
    /\ document = None
    /\ exported = None
    /\ persistPc = "idle"

\* what the story handlers and the practice handlers hold that these handlers leave
\* alone
sessionVars == <<activeTask, baseMood, apiError, retryAction, therapyPc, closureTask,
                 recordings, calls>>

\* handleSelectCharacter, lines 709-719
SelectCharacter ==
    /\ character = None
    /\ character' = Some(TeddyCharacter)
    /\ messages' = <<ChatMessage("model", InitialText)>>
    /\ UNCHANGED <<pendingHistory, document, exported, persistPc, memory, activity,
                   sessionVars, storyVars>>

\* handleSendMessage up to its await, lines 382-396; the send control is disabled
\* while a resume choice is pending
SendMessage ==
    /\ character # None
    /\ persistPc = "idle"
    /\ pendingHistory = None
    /\ activity # "talking"
    /\ Len(messages) + 2 <= MaxMessages
    /\ messages' = Append(messages, ChatMessage("user", UserText))
    /\ activity' = "thinking"
    /\ apiError' = None
    /\ retryAction' = "none"
    /\ persistPc' = "sending"
    /\ UNCHANGED <<character, pendingHistory, document, exported, memory, activeTask,
                   baseMood, therapyPc, closureTask, recordings, calls, storyVars>>

\* sendMessage, resumeSession or startNewSession resolves: the model's message is
\* appended, lines 406-411 and 790-795
SessionResolves ==
    /\ persistPc \in {"sending", "resuming"}
    /\ messages' = Append(messages, ChatMessage("model", ResponseText))
    /\ activity' = "idle"
    /\ persistPc' = "idle"
    /\ UNCHANGED <<character, pendingHistory, document, exported, memory, sessionVars,
                   storyVars>>

\* the state handleSaveState writes, line 722
AppState ==
    [memory |-> memory, chatHistory |-> messages, character |-> character[1],
     storyState |-> storyState]

\* handleSaveState, lines 720-743: the document is offered as a file and the
\* 'memory_saved' achievement is added
SaveState ==
    /\ character # None
    /\ document' = Some(Stringify(AppState))
    /\ exported' = Some(AppState)
    /\ memory' = IF \E i \in 1..Len(memory.achievements) :
                        memory.achievements[i] = "memory_saved"
                 THEN memory
                 ELSE [memory EXCEPT !.achievements = Append(@, "memory_saved")]
    /\ UNCHANGED <<character, messages, pendingHistory, persistPc, activity, sessionVars,
                   storyVars>>

\* the files that are handed to handleLoadState: an exported document, a text that
\* is not JSON, and the text "{}"
Files ==
    {NotJsonFile, EmptyObjectFile}
    \cup (IF document # None THEN {JsonFile(document[1])} ELSE {})

\* handleLoadState, lines 745-769, with the reader's onload
LoadState ==
    /\ \E file \in Files :
          IF file.json /\ IsStateDocument(file.value)
          THEN /\ character' = Some(file.value.character)
               /\ memory' = ParsedMemory(file.value)
               /\ pendingHistory' = Some(file.value.chatHistory)
               /\ storyState' = IF "storyState" \in DOMAIN file.value
                                THEN file.value.storyState ELSE INITIAL_STORY_STATE
               /\ messages' = <<>>
          ELSE UNCHANGED <<character, memory, pendingHistory, storyState, messages>>
    /\ UNCHANGED <<document, exported, persistPc, activity, sessionVars, storyPc,
                   storyCall>>

\* handleResumeChoice up to its await, lines 773-786
ResumeChoice ==
    /\ character # None
    /\ pendingHistory # None
    /\ persistPc = "idle"
    /\ Len(pendingHistory[1]) + 1 <= MaxMessages
    /\ \E choice \in {"continue", "new"} :
          messages' = IF choice = "continue" THEN pendingHistory[1] ELSE <<>>
    /\ pendingHistory' = None
    /\ activity' = "thinking"
    /\ apiError' = None
    /\ retryAction' = "none"
    /\ persistPc' = "resuming"
    /\ UNCHANGED <<character, document, exported, memory, activeTask, baseMood,
                   therapyPc, closureTask, recordings, calls, storyVars>>

----------------------------------------------------------------------------
(* The recording's way to the assessment: TherapyPanel.startGame and        *)
(* handleTherapyRecord lines 606-628, blobToWavBase64 (audioUtils.ts)       *)

\* the padding character '=' of Base64, after the 64 digits 0..63
Pad == 64

\* the Base64 text of a data URL (reader.result.split(',')[1]): three bytes make
\* four digits
RECURSIVE Base64(_)
Base64(bytes) ==
    IF Len(bytes) = 0 THEN <<>>
    ELSE IF Len(bytes) = 1
    THEN <<bytes[1] \div 4, (bytes[1] % 4) * 16, Pad, Pad>>
    ELSE IF Len(bytes) = 2
    THEN <<bytes[1] \div 4, (bytes[1] % 4) * 16 + bytes[2] \div 16,
           (bytes[2] % 16) * 4, Pad>>
    ELSE <<bytes[1] \div 4, (bytes[1] % 4) * 16 + bytes[2] \div 16,
           (bytes[2] % 16) * 4 + bytes[3] \div 64, bytes[3] % 64>>
         \o Base64(SubSeq(bytes, 4, Len(bytes)))

\* what MediaRecorder.isTypeSupported admits, startGame lines 181-186: the first
\* type that is supported, or "none"
RecorderSupport == {"audio/webm;codecs=opus", "audio/webm", "none"}

\* options.mimeType of startGame ("" stands for the undefined of options = {})
RecorderOptions(support) == IF support = "none" THEN "" ELSE support

\* the format the MediaRecorder writes: the one asked for; with no mimeType the
\* recorder takes its own default, which is none of the WebM types that
\* isTypeSupported has just refused
RecorderFormat(support) == IF support = "none" THEN "audio/mp4" ELSE support

\* new Blob(chunks, { type: options.mimeType || 'audio/webm' }), line 197
BlobType(support) ==
    IF RecorderOptions(support) # "" THEN RecorderOptions(support) ELSE "audio/webm"

\* a recorded blob: its type property, the format of its bytes, its bytes, and what
\* decodeAudioData makes of them (None: the decoding rejects)
Blob(support, bytes, audio) ==
    [type |-> BlobType(support), format |-> RecorderFormat(support), bytes |-> bytes,
     audio |-> audio]

RecordedBytes == {<<26, 69, 223, 163>>, <<0, 0, 0, 28, 102>>}

RecordedBlobs ==
    {Blob(support, bytes, audio) :
        support \in RecorderSupport, bytes \in RecordedBytes,
        audio \in {None, Some(AudioBuffer(48000, <<Float(0), Float(-3)>>))}}

\* what is handed to assessPronunciation
Submission(data, mimeType) == [data |-> data, mimeType |-> mimeType]

\* the contents of the generateContent call of assessPronunciation, lines 423-430:
\* the prompt, the audio when there is any, and no function response
AssessmentTurn(submission) ==
    [role |-> "user",
     inlineData |-> IF Len(submission.data) > 0 THEN Some(submission) ELSE None,
     functionResponses |-> <<>>]

MaxContexts == 4

VARIABLES
    recording,   \* the blob of the handleTherapyRecord call under way, or None
    convertPc,   \* "idle", "converting", "reading" (the fallback), "assessing"
    conversion,  \* "none", "ok", "failed": how blobToWavBase64 ended
    submitted,   \* what the call handed to assessPronunciation, or None
    audioContextRef,  \* audioContextRef.current: 0 (null) or the number of its context
    contexts,    \* how many AudioContext objects the session has created
    outbound     \* the turns the last assessPronunciation call has sent to the model

convertVars == <<recording, convertPc, conversion, submitted, audioContextRef, contexts,
                 outbound>>

InitConvert ==
    /\ recording = None
    /\ convertPc = "idle"
    /\ conversion = "none"
    /\ submitted = None
    /\ audioContextRef = 0
    /\ contexts = 0
    /\ outbound = <<>>

\* the contexts that exist after initAudioContext, part_000 lines 268-275: a context
\* is created when the ref holds none
AfterInit == IF audioContextRef = 0 THEN contexts + 1 ELSE contexts

\* the recorder's onstop hands the blob to handleTherapyRecord, which runs to the
\* call of blobToWavBase64 (part_000 592-611): initAudioContext when the ref holds no
\* context (line 596), and the new AudioContext of blobToWavBase64 (audioUtils.ts 85)
ConvertRecording ==
    /\ convertPc = "idle"
    /\ activeTask # None
    /\ AfterInit < MaxContexts
    /\ \E blob \in RecordedBlobs : recording' = Some(blob)
    /\ audioContextRef' = IF audioContextRef = 0 THEN AfterInit ELSE audioContextRef
    /\ contexts' = AfterInit + 1
    /\ apiError' = None
    /\ retryAction' = "none"
    /\ activity' = "thinking"
    /\ convertPc' = "converting"
    /\ closureTask' = activeTask
    /\ outbound' = <<>>
    /\ UNCHANGED <<conversion, submitted, memory, activeTask, baseMood, therapyPc,
                   recordings, calls>>

\* blobToWavBase64 resolves: the decoded audio as WAV, line 611
ConversionSucceeds ==
    /\ convertPc = "converting"
    /\ recording[1].audio # None
    /\ conversion' = "ok"
    /\ submitted' = Some(Submission(Base64(audioBufferToWav(recording[1].audio[1])),
                                    "audio/wav"))
    /\ outbound' = <<AssessmentTurn(submitted'[1])>>
    /\ convertPc' = "assessing"
    /\ UNCHANGED <<recording, audioContextRef, contexts, taskVars, activity, apiError,
                   retryAction>>

\* blobToWavBase64 rejects (no AudioContext, decodeAudioData rejects, the reader
\* fails): the catch block starts to read the original blob, lines 612-615
ConversionFails ==
    /\ convertPc = "converting"
    /\ conversion' = "failed"
    /\ convertPc' = "reading"
    /\ UNCHANGED <<recording, submitted, audioContextRef, contexts, outbound, taskVars,
                   activity, apiError, retryAction>>

\* the reader's onloadend, lines 616-624
OriginalRead ==
    /\ convertPc = "reading"
    /\ submitted' = Some(Submission(Base64(recording[1].bytes), recording[1].type))
    /\ outbound' = <<AssessmentTurn(submitted'[1])>>
    /\ convertPc' = "assessing"
    /\ UNCHANGED <<recording, conversion, audioContextRef, contexts, taskVars, activity,
                   apiError, retryAction>>

\* assessPronunciation returns, geminiService.ts 437-469, having run the callbacks
\* of the response's function calls and sent nothing more to the model; the handler
\* speaks the feedback and ends (part_000 628-684)
SubmissionAssessed ==
    /\ convertPc = "assessing"
    /\ \E content \in AssessmentResponses :
          LET st == OnCalls([memory |-> memory, activeTask |-> activeTask,
                             baseMood |-> baseMood],
                            closureTask[1], AssessedCalls(content))
          IN /\ memory' = st.memory
             /\ activeTask' = st.activeTask
             /\ baseMood' = st.baseMood
             /\ calls' = AssessedCalls(content)
    /\ recording' = None
    /\ conversion' = "none"
    /\ submitted' = None
    /\ convertPc' = "idle"
    /\ activity' = "idle"
    /\ UNCHANGED <<audioContextRef, contexts, outbound, therapyPc, closureTask, recordings,
                   apiError, retryAction>>

----------------------------------------------------------------------------
(* The chat send and its retry: handleSendMessage (part_000 382-413) run     *)
(* through handleApiOperation (96-112), with the speech of the reply          *)

\* the texts typed into the input, each sent once
UserTexts == {<<"one">>, <<"two">>}

\* the reply of the remote model to a user text
Reply(text) == <<"re">> \o text

VARIABLES
    isTyping,    \* the typing indicator
    requests,    \* the sends in flight: [history, text, retried], the arguments of
                 \* sendMessage in the operation's closure
    failed,      \* None, or the request of the operation that retryAction re-runs
    ended        \* the operations that have finished: [text, retried, outcome]

sendVars == <<isTyping, requests, failed, ended>>

InitSend ==
    /\ isTyping = FALSE
    /\ requests = {}
    /\ failed = None
    /\ ended = {}

\* setIsTyping(false) is skipped
TypingKept == UNCHANGED isTyping

\* setIsTyping(false), lines 110 and 409
TypingOver == isTyping' = FALSE

\* stopCurrentAudio, lines 276-290, but for its setActivity
SourceStopped ==
    /\ playing' = IF currentAudioSource # None THEN playing \ {currentAudioSource[1]}
                  ELSE playing
    /\ currentAudioSource' = None

\* handleSendMessage up to the call of the operation, lines 382-396 and 97-98; the
\* input and the send control are disabled while typing, talking, a resume choice
\* is pending or an error is shown (lines 1088-1094)
HandleSendMessage ==
    /\ character # None
    /\ ~isTyping
    /\ activity # "talking"
    /\ pendingHistory = None
    /\ apiError = None
    /\ \E text \in UserTexts :
          /\ \A i \in 1..Len(messages) : messages[i] # ChatMessage("user", text)
          /\ messages' = Append(messages, ChatMessage("user", text))
          /\ requests' = requests \cup
                            {[history |-> messages, text |-> text, retried |-> FALSE]}
    /\ SourceStopped
    /\ isTyping' = TRUE
    /\ activity' = "thinking"
    /\ apiError' = None
    /\ retryAction' = "none"
    /\ UNCHANGED <<failed, ended, character, pendingHistory, speechCount, synthesizing,
                   taskVars, document, exported, persistPc>>

\* an operation has finished
Ended(request, outcome) ==
    /\ requests' = requests \ {request}
    /\ ended' = ended \cup {[text |-> request.text, retried |-> request.retried,
                             outcome |-> outcome]}

\* sendMessage resolves, lines 406-411: the reply is appended and spoken
SendResolves ==
    /\ \E request \in requests :
          /\ messages' = Append(messages, ChatMessage("model", Reply(request.text)))
          /\ Ended(request, "reply")
    /\ TypingOver
    /\ SpeakText
    /\ UNCHANGED <<failed, character, pendingHistory, document, exported, persistPc>>

\* sendMessage rejects with a GeminiError, lines 100-105 and 109-110
SendRejects ==
    /\ \E request \in requests, error \in SurfacedErrors :
          /\ SurfaceError(error, RetryActionFor("send"))
          /\ failed' = Some(request)
          /\ Ended(request, "error")
    /\ TypingOver
    /\ UNCHANGED <<messages, character, pendingHistory, playVars, taskVars, document,
                   exported, persistPc>>

\* the operation throws an error that is no GeminiError, lines 106-110
SendThrows ==
    /\ \E request \in requests : Ended(request, "thrown")
    /\ activity' = "idle"
    /\ TypingOver
    /\ UNCHANGED <<failed, apiError, retryAction, messages, character, pendingHistory,
                   playVars, taskVars, document, exported, persistPc>>

\* the retry control calls retryAction: handleApiOperation(operation), lines 97-99,
\* runs the closure of the failed send again
RetrySend ==
    /\ apiError # None
    /\ retryAction = "send"
    /\ failed # None
    /\ apiError' = None
    /\ retryAction' = "none"
    /\ requests' = requests \cup {[failed[1] EXCEPT !.retried = TRUE]}
    /\ failed' = None
    /\ UNCHANGED <<isTyping, ended, activity, messages, character, pendingHistory,
                   playVars, taskVars, document, exported, persistPc>>

----------------------------------------------------------------------------
(* Specifications *)

vars == <<invokeVars, chatVars, therapyVars, baselineVars, storyVars, audioVars, bookVars, playVars, bannerVars, recordVars, persistVars, convertVars, sendVars>>

Init == InitInvoke /\ InitChat /\ InitTherapy /\ InitBaseline /\ InitStory /\ InitAudio /\ InitBook /\ InitPlay /\ InitBanner /\ InitRecord /\ InitPersist /\ InitConvert /\ InitSend

NextInvoke ==
    \/ Invoke /\ UNCHANGED <<chatVars, therapyVars, baselineVars, storyVars, audioVars, bookVars, playVars, bannerVars, recordVars, persistVars, convertVars, sendVars>>
    \/ OperationResolves /\ UNCHANGED <<chatVars, therapyVars, baselineVars, storyVars, audioVars, bookVars, playVars, bannerVars, recordVars, persistVars, convertVars, sendVars>>
    \/ OperationRejects /\ UNCHANGED <<chatVars, therapyVars, baselineVars, storyVars, audioVars, bookVars, playVars, bannerVars, recordVars, persistVars, convertVars, sendVars>>
    \/ InvokeSettled /\ UNCHANGED <<chatVars, therapyVars, baselineVars, storyVars, audioVars, bookVars, playVars, bannerVars, recordVars, persistVars, convertVars, sendVars>>

\* withErrorHandling around an arbitrary operation
SpecInvoke == Init /\ [][NextInvoke]_vars

NextChat ==
    \/ StartChat /\ UNCHANGED <<invokeVars, therapyVars, baselineVars, storyVars, audioVars, bookVars, playVars, bannerVars, recordVars, persistVars, convertVars, sendVars>>
    \/ LoopHead /\ UNCHANGED <<invokeVars, therapyVars, baselineVars, storyVars, audioVars, bookVars, playVars, bannerVars, recordVars, persistVars, convertVars, sendVars>>
    \/ ModelResponds /\ UNCHANGED <<invokeVars, therapyVars, baselineVars, storyVars, audioVars, bookVars, playVars, bannerVars, recordVars, persistVars, convertVars, sendVars>>
    \/ ModelFails /\ UNCHANGED <<invokeVars, therapyVars, baselineVars, storyVars, audioVars, bookVars, playVars, bannerVars, recordVars, persistVars, convertVars, sendVars>>
    \/ DispatchCall /\ UNCHANGED <<invokeVars, therapyVars, baselineVars, storyVars, audioVars, bookVars, playVars, bannerVars, recordVars, persistVars, convertVars, sendVars>>
    \/ AppendResults /\ UNCHANGED <<invokeVars, therapyVars, baselineVars, storyVars, audioVars, bookVars, playVars, bannerVars, recordVars, persistVars, convertVars, sendVars>>
    \/ ReturnText /\ UNCHANGED <<invokeVars, therapyVars, baselineVars, storyVars, audioVars, bookVars, playVars, bannerVars, recordVars, persistVars, convertVars, sendVars>>

\* one invocation of executeChat against an arbitrary remote model
SpecChat == Init /\ [][NextChat]_vars

\* the same, where every pending step is eventually taken: the event loop runs
\* each continuation, and a remote call in flight runs to completion or failure
FairSpecChat == SpecChat /\ WF_vars(NextChat)

NextTherapy ==
    \/ StartTherapyTask /\ UNCHANGED <<invokeVars, chatVars, baselineVars, storyVars, audioVars, bookVars, playVars, bannerVars, recordVars, persistVars, convertVars, sendVars>>
    \/ GenerateTaskResolves /\ UNCHANGED <<invokeVars, chatVars, baselineVars, storyVars, audioVars, bookVars, playVars, bannerVars, recordVars, persistVars, convertVars, sendVars>>
    \/ GenerateTaskRejects /\ UNCHANGED <<invokeVars, chatVars, baselineVars, storyVars, audioVars, bookVars, playVars, bannerVars, recordVars, persistVars, convertVars, sendVars>>
    \/ StartGame /\ UNCHANGED <<invokeVars, chatVars, baselineVars, storyVars, audioVars, bookVars, playVars, bannerVars, recordVars, persistVars, convertVars, sendVars>>
    \/ TherapyRecord /\ UNCHANGED <<invokeVars, chatVars, baselineVars, storyVars, audioVars, bookVars, playVars, bannerVars, recordVars, persistVars, convertVars, sendVars>>
    \/ AssessmentResolves /\ UNCHANGED <<invokeVars, chatVars, baselineVars, storyVars, audioVars, bookVars, playVars, bannerVars, recordVars, persistVars, convertVars, sendVars>>
    \/ AssessmentRejects /\ UNCHANGED <<invokeVars, chatVars, baselineVars, storyVars, audioVars, bookVars, playVars, bannerVars, recordVars, persistVars, convertVars, sendVars>>
    \/ LoadTask /\ UNCHANGED <<invokeVars, chatVars, baselineVars, storyVars, audioVars, bookVars, playVars, bannerVars, recordVars, persistVars, convertVars, sendVars>>

\* a session of the practice panel against an arbitrary remote model, one
\* operation in flight at a time
SpecTherapy == Init /\ [][NextTherapy]_vars

NextSession ==
    \/ StartTherapyTask /\ UNCHANGED <<invokeVars, chatVars, baselineVars, storyVars, audioVars, bookVars, playVars, bannerVars, recordVars, persistVars, convertVars, sendVars>>
    \/ GenerateTaskResolves /\ UNCHANGED <<invokeVars, chatVars, baselineVars, storyVars, audioVars, bookVars, playVars, bannerVars, recordVars, persistVars, convertVars, sendVars>>
    \/ GenerateTaskRejects /\ UNCHANGED <<invokeVars, chatVars, baselineVars, storyVars, audioVars, bookVars, playVars, bannerVars, recordVars, persistVars, convertVars, sendVars>>
    \/ StartGame /\ UNCHANGED <<invokeVars, chatVars, baselineVars, storyVars, audioVars, bookVars, playVars, bannerVars, recordVars, persistVars, convertVars, sendVars>>
    \/ TherapyRecord /\ UNCHANGED <<invokeVars, chatVars, baselineVars, storyVars, audioVars, bookVars, playVars, bannerVars, recordVars, persistVars, convertVars, sendVars>>
    \/ AssessmentResolves /\ UNCHANGED <<invokeVars, chatVars, baselineVars, storyVars, audioVars, bookVars, playVars, bannerVars, recordVars, persistVars, convertVars, sendVars>>
    \/ AssessmentRejects /\ UNCHANGED <<invokeVars, chatVars, baselineVars, storyVars, audioVars, bookVars, playVars, bannerVars, recordVars, persistVars, convertVars, sendVars>>
    \/ ChatUpdatesMemory /\ UNCHANGED <<invokeVars, chatVars, baselineVars, storyVars, audioVars, bookVars, playVars, bannerVars, recordVars, persistVars, convertVars, sendVars>>
    \/ SaveSettings /\ UNCHANGED <<invokeVars, chatVars, baselineVars, storyVars, audioVars, bookVars, playVars, bannerVars, recordVars, persistVars, convertVars, sendVars>>

\* the same session, with the writes to memory of the chat's updateMemory tool and
\* of the settings dialog
SpecSession == Init /\ [][NextSession]_vars

NextBaseline ==
    \/ OpenBaseline /\ UNCHANGED <<invokeVars, chatVars, practiceVars, storyVars, audioVars, bookVars, playVars, bannerVars, recordVars, persistVars, convertVars, sendVars>>
    \/ FinishBaseline /\ UNCHANGED <<invokeVars, chatVars, practiceVars, storyVars, audioVars, bookVars, playVars, bannerVars, recordVars, persistVars, convertVars, sendVars>>
    \/ BaselineResolves /\ UNCHANGED <<invokeVars, chatVars, practiceVars, storyVars, audioVars, bookVars, playVars, bannerVars, recordVars, persistVars, convertVars, sendVars>>
    \/ BaselineRejects /\ UNCHANGED <<invokeVars, chatVars, practiceVars, storyVars, audioVars, bookVars, playVars, bannerVars, recordVars, persistVars, convertVars, sendVars>>
    \/ CancelBaseline /\ UNCHANGED <<invokeVars, chatVars, practiceVars, storyVars, audioVars, bookVars, playVars, bannerVars, recordVars, persistVars, convertVars, sendVars>>
    \/ StartTherapyTask /\ UNCHANGED <<invokeVars, chatVars, baselineVars, storyVars, audioVars, bookVars, playVars, bannerVars, recordVars, persistVars, convertVars, sendVars>>
    \/ GenerateTaskResolves /\ UNCHANGED <<invokeVars, chatVars, baselineVars, storyVars, audioVars, bookVars, playVars, bannerVars, recordVars, persistVars, convertVars, sendVars>>
    \/ GenerateTaskRejects /\ UNCHANGED <<invokeVars, chatVars, baselineVars, storyVars, audioVars, bookVars, playVars, bannerVars, recordVars, persistVars, convertVars, sendVars>>
    \/ LoadTask /\ UNCHANGED <<invokeVars, chatVars, baselineVars, storyVars, audioVars, bookVars, playVars, bannerVars, recordVars, persistVars, convertVars, sendVars>>
    \/ ChatUpdatesMemory /\ UNCHANGED <<invokeVars, chatVars, baselineVars, storyVars, audioVars, bookVars, playVars, bannerVars, recordVars, persistVars, convertVars, sendVars>>

\* the baseline assessment of the practice panel, between task generations and
\* memory updates of the chat
SpecBaseline == Init /\ [][NextBaseline]_vars

NextStory ==
    \/ StartStory /\ UNCHANGED <<invokeVars, chatVars, baselineVars, audioVars, bookVars, playVars, bannerVars, recordVars, persistVars, convertVars, sendVars>>
    \/ ContinueStory /\ UNCHANGED <<invokeVars, chatVars, baselineVars, audioVars, bookVars, playVars, bannerVars, recordVars, persistVars, convertVars, sendVars>>
    \/ StoryResolves /\ UNCHANGED <<invokeVars, chatVars, baselineVars, audioVars, bookVars, playVars, bannerVars, recordVars, persistVars, convertVars, sendVars>>
    \/ StoryRejects /\ UNCHANGED <<invokeVars, chatVars, baselineVars, audioVars, bookVars, playVars, bannerVars, recordVars, persistVars, convertVars, sendVars>>
    \/ ResetStory /\ UNCHANGED <<invokeVars, chatVars, baselineVars, audioVars, bookVars, playVars, bannerVars, recordVars, persistVars, convertVars, sendVars>>

\* the sessions of the story panel against an arbitrary remote model, one
\* generation in flight at a time
SpecStory == Init /\ [][NextStory]_vars

NextBook ==
    \/ StartStory /\ UNCHANGED <<invokeVars, chatVars, baselineVars, audioVars, bookVars, playVars, bannerVars, recordVars, persistVars, convertVars, sendVars>>
    \/ ContinueStory /\ UNCHANGED <<invokeVars, chatVars, baselineVars, audioVars, bookVars, playVars, bannerVars, recordVars, persistVars, convertVars, sendVars>>
    \/ StoryResolves /\ UNCHANGED <<invokeVars, chatVars, baselineVars, audioVars, bookVars, playVars, bannerVars, recordVars, persistVars, convertVars, sendVars>>
    \/ ResetStory /\ UNCHANGED <<invokeVars, chatVars, baselineVars, audioVars, bookVars, playVars, bannerVars, recordVars, persistVars, convertVars, sendVars>>
    \/ DownloadStoryAudio /\ UNCHANGED <<invokeVars, chatVars, baselineVars, audioVars, playVars, bannerVars, recordVars, persistVars, convertVars, sendVars>>
    \/ SpeechResolves /\ UNCHANGED <<invokeVars, chatVars, baselineVars, audioVars, playVars, bannerVars, recordVars, persistVars, convertVars, sendVars>>
    \/ SpeechRejects /\ UNCHANGED <<invokeVars, chatVars, baselineVars, audioVars, playVars, bannerVars, recordVars, persistVars, convertVars, sendVars>>
    \/ AssembleAudiobook /\ UNCHANGED <<invokeVars, chatVars, baselineVars, audioVars, playVars, bannerVars, recordVars, persistVars, convertVars, sendVars>>

\* the stories of the story panel and the downloads of their audiobooks
SpecBook == Init /\ [][NextBook]_vars

NextPlay ==
    \/ SpeakText /\ UNCHANGED <<invokeVars, chatVars, baselineVars, storyVars, audioVars, bookVars, bannerVars, recordVars, persistVars, convertVars, sendVars>>
    \/ SpeechArrives /\ UNCHANGED <<invokeVars, chatVars, baselineVars, storyVars, audioVars, bookVars, bannerVars, recordVars, persistVars, convertVars, sendVars>>
    \/ SpeechFails /\ UNCHANGED <<invokeVars, chatVars, baselineVars, storyVars, audioVars, bookVars, bannerVars, recordVars, persistVars, convertVars, sendVars>>
    \/ SourceEnds /\ UNCHANGED <<invokeVars, chatVars, baselineVars, storyVars, audioVars, bookVars, bannerVars, recordVars, persistVars, convertVars, sendVars>>

\* the speakText calls of the App in every interleaving with their speech
\* synthesis and the end of their playback
SpecPlay == Init /\ [][NextPlay]_vars

NextBanner ==
    \/ OperationStarts /\ UNCHANGED <<invokeVars, chatVars, baselineVars, storyVars, audioVars, bookVars, playVars, recordVars, persistVars, convertVars, sendVars>>
    \/ OperationSucceeds /\ UNCHANGED <<invokeVars, chatVars, baselineVars, storyVars, audioVars, bookVars, playVars, recordVars, persistVars, convertVars, sendVars>>
    \/ OperationThrows /\ UNCHANGED <<invokeVars, chatVars, baselineVars, storyVars, audioVars, bookVars, playVars, recordVars, persistVars, convertVars, sendVars>>
    \/ OperationFails /\ UNCHANGED <<invokeVars, chatVars, baselineVars, storyVars, audioVars, bookVars, playVars, recordVars, persistVars, convertVars, sendVars>>
    \/ Tick /\ UNCHANGED <<invokeVars, chatVars, baselineVars, storyVars, audioVars, bookVars, playVars, recordVars, persistVars, convertVars, sendVars>>
    \/ Retry /\ UNCHANGED <<invokeVars, chatVars, baselineVars, storyVars, audioVars, bookVars, playVars, recordVars, persistVars, convertVars, sendVars>>

\* the error banner over the operations of the App that fail or succeed
SpecBanner == Init /\ [][NextBanner]_vars

NextRecord ==
    \/ StartTherapyTask /\ UNCHANGED <<invokeVars, chatVars, baselineVars, storyVars, audioVars, bookVars, playVars, bannerVars, recordVars, persistVars, convertVars, sendVars>>
    \/ GenerateTaskResolves /\ UNCHANGED <<invokeVars, chatVars, baselineVars, storyVars, audioVars, bookVars, playVars, bannerVars, recordVars, persistVars, convertVars, sendVars>>
    \/ LoadTask /\ UNCHANGED <<invokeVars, chatVars, baselineVars, storyVars, audioVars, bookVars, playVars, bannerVars, recordVars, persistVars, convertVars, sendVars>>
    \/ StartRecording /\ UNCHANGED <<invokeVars, chatVars, baselineVars, storyVars, audioVars, bookVars, playVars, bannerVars, persistVars, convertVars, sendVars>>
    \/ HandRecording /\ UNCHANGED <<invokeVars, chatVars, baselineVars, storyVars, audioVars, bookVars, playVars, bannerVars, persistVars, convertVars, sendVars>>
    \/ RecordingDecoded /\ UNCHANGED <<invokeVars, chatVars, baselineVars, storyVars, audioVars, bookVars, playVars, bannerVars, persistVars, convertVars, sendVars>>
    \/ RecordingAssessed /\ UNCHANGED <<invokeVars, chatVars, baselineVars, storyVars, audioVars, bookVars, playVars, bannerVars, persistVars, convertVars, sendVars>>
    \/ RecordingFails /\ UNCHANGED <<invokeVars, chatVars, baselineVars, storyVars, audioVars, bookVars, playVars, bannerVars, persistVars, convertVars, sendVars>>

\* the recordings of the practice panel with every handleTherapyRecord call that
\* the start control admits
SpecRecord == Init /\ [][NextRecord]_vars

\* the items of the stories told in these sessions
PersistItems == <<"Map", "Key">>

NextPersist ==
    \/ SelectCharacter /\ UNCHANGED <<invokeVars, chatVars, baselineVars, audioVars, bookVars, playVars, bannerVars, recordVars, convertVars, sendVars>>
    \/ SendMessage /\ UNCHANGED <<invokeVars, chatVars, baselineVars, audioVars, bookVars, playVars, bannerVars, recordVars, convertVars, sendVars>>
    \/ SessionResolves /\ UNCHANGED <<invokeVars, chatVars, baselineVars, audioVars, bookVars, playVars, bannerVars, recordVars, convertVars, sendVars>>
    \/ SaveSettings /\ UNCHANGED <<invokeVars, chatVars, baselineVars, audioVars, bookVars, playVars, bannerVars, recordVars, storyVars, persistVars, convertVars, sendVars>>
    \/ StartStory /\ storyState'.items = PersistItems /\ UNCHANGED <<invokeVars, chatVars, baselineVars, audioVars, bookVars, playVars, bannerVars, recordVars, persistVars, convertVars, sendVars>>
    \/ StoryResolves /\ UNCHANGED <<invokeVars, chatVars, baselineVars, audioVars, bookVars, playVars, bannerVars, recordVars, persistVars, convertVars, sendVars>>
    \/ SaveState /\ UNCHANGED <<invokeVars, chatVars, baselineVars, audioVars, bookVars, playVars, bannerVars, recordVars, convertVars, sendVars>>
    \/ LoadState /\ UNCHANGED <<invokeVars, chatVars, baselineVars, audioVars, bookVars, playVars, bannerVars, recordVars, convertVars, sendVars>>
    \/ ResumeChoice /\ UNCHANGED <<invokeVars, chatVars, baselineVars, audioVars, bookVars, playVars, bannerVars, recordVars, convertVars, sendVars>>

\* the sessions in which the state document is exported and imported
SpecPersist == Init /\ [][NextPersist]_vars

NextConvert ==
    \/ StartTherapyTask /\ UNCHANGED <<invokeVars, chatVars, baselineVars, storyVars, audioVars, bookVars, playVars, bannerVars, recordVars, persistVars, convertVars, sendVars>>
    \/ GenerateTaskResolves /\ UNCHANGED <<invokeVars, chatVars, baselineVars, storyVars, audioVars, bookVars, playVars, bannerVars, recordVars, persistVars, convertVars, sendVars>>
    \/ ConvertRecording /\ UNCHANGED <<invokeVars, chatVars, baselineVars, storyVars, audioVars, bookVars, playVars, bannerVars, recordVars, persistVars, sendVars>>
    \/ ConversionSucceeds /\ UNCHANGED <<invokeVars, chatVars, baselineVars, storyVars, audioVars, bookVars, playVars, bannerVars, recordVars, persistVars, sendVars>>
    \/ ConversionFails /\ UNCHANGED <<invokeVars, chatVars, baselineVars, storyVars, audioVars, bookVars, playVars, bannerVars, recordVars, persistVars, sendVars>>
    \/ OriginalRead /\ UNCHANGED <<invokeVars, chatVars, baselineVars, storyVars, audioVars, bookVars, playVars, bannerVars, recordVars, persistVars, sendVars>>
    \/ SubmissionAssessed /\ UNCHANGED <<invokeVars, chatVars, baselineVars, storyVars, audioVars, bookVars, playVars, bannerVars, recordVars, persistVars, sendVars>>

\* the recordings of a practice task on their way to the assessment
SpecConvert == Init /\ [][NextConvert]_vars

NextAudio ==
    \/ PcmToAudioBuffer /\ UNCHANGED <<invokeVars, chatVars, therapyVars, baselineVars, storyVars, bookVars, playVars, bannerVars, recordVars, persistVars, convertVars, sendVars>>
    \/ WavOfDecoded /\ UNCHANGED <<invokeVars, chatVars, therapyVars, baselineVars, storyVars, bookVars, playVars, bannerVars, recordVars, persistVars, convertVars, sendVars>>
    \/ AudioBufferToWav /\ UNCHANGED <<invokeVars, chatVars, therapyVars, baselineVars, storyVars, bookVars, playVars, bannerVars, recordVars, persistVars, convertVars, sendVars>>
    \/ ConcatenateAudioBuffers /\ UNCHANGED <<invokeVars, chatVars, therapyVars, baselineVars, storyVars, bookVars, playVars, bannerVars, recordVars, persistVars, convertVars, sendVars>>

\* the initial states of SpecAudio: an input to the utilities, the rest as in Init
InitAudioSession ==
    /\ InitInvoke /\ InitChat /\ InitTherapy /\ InitBaseline /\ InitStory /\ InitBook /\ InitPlay /\ InitBanner /\ InitRecord /\ InitPersist /\ InitConvert /\ InitSend
    /\ InitAudioInputs

\* the audio utilities applied to every input within the bounds
SpecAudio == InitAudioSession /\ [][NextAudio]_vars

NextSend ==
    \/ HandleSendMessage /\ UNCHANGED <<invokeVars, chatVars, baselineVars, storyVars, audioVars, bookVars, bannerVars, recordVars, convertVars>>
    \/ SendResolves /\ UNCHANGED <<invokeVars, chatVars, baselineVars, storyVars, audioVars, bookVars, bannerVars, recordVars, convertVars>>
    \/ SendRejects /\ UNCHANGED <<invokeVars, chatVars, baselineVars, storyVars, audioVars, bookVars, bannerVars, recordVars, convertVars>>
    \/ SendThrows /\ UNCHANGED <<invokeVars, chatVars, baselineVars, storyVars, audioVars, bookVars, bannerVars, recordVars, convertVars>>
    \/ RetrySend /\ UNCHANGED <<invokeVars, chatVars, baselineVars, storyVars, audioVars, bookVars, bannerVars, recordVars, convertVars>>
    \/ SelectCharacter /\ UNCHANGED <<invokeVars, chatVars, baselineVars, audioVars, bookVars, playVars, bannerVars, recordVars, convertVars, sendVars>>
    \/ SpeechArrives /\ UNCHANGED <<invokeVars, chatVars, baselineVars, storyVars, audioVars, bookVars, bannerVars, recordVars, persistVars, convertVars, sendVars>>
    \/ SpeechFails /\ UNCHANGED <<invokeVars, chatVars, baselineVars, storyVars, audioVars, bookVars, bannerVars, recordVars, persistVars, convertVars, sendVars>>
    \/ SourceEnds /\ UNCHANGED <<invokeVars, chatVars, baselineVars, storyVars, audioVars, bookVars, bannerVars, recordVars, persistVars, convertVars, sendVars>>

\* the chat sends of the App with their failures, their retries and the speech of
\* the replies
SpecSend == Init /\ [][NextSend]_vars

\* the remote calls settle and a started source plays to its end
FairSend ==
    /\ SpecSend
    /\ WF_vars((SendResolves \/ SendRejects \/ SendThrows) /\ UNCHANGED <<invokeVars, chatVars, baselineVars, storyVars, audioVars, bookVars, bannerVars, recordVars, convertVars>>)
    /\ WF_vars((SpeechArrives \/ SpeechFails) /\ UNCHANGED <<invokeVars, chatVars, baselineVars, storyVars, audioVars, bookVars, bannerVars, recordVars, persistVars, convertVars, sendVars>>)
    /\ WF_vars(SourceEnds /\ UNCHANGED <<invokeVars, chatVars, baselineVars, storyVars, audioVars, bookVars, bannerVars, recordVars, persistVars, convertVars, sendVars>>)

----------------------------------------------------------------------------
(* Claims about executeChat *)

ChatTerminated == chatPc \in {"done", "failed"}

\* the function calls of the last raw response
RawCalls == IF response = None THEN <<>> ELSE CallsOf(response[1])

\* the first text segment of the last raw response that is not blank
RawFirstText ==
    LET texts == SelectSeq(response[1], LAMBDA p : p.text # None /\ Trim(p.text[1]) # <<>>)
    IN  IF texts = <<>> THEN None ELSE texts[1].text

\* the last raw response has a text segment that is not blank
RawHasText == response # None /\ RawFirstText # None

\* the last response has no usable content
NoUsableContent ==
    \/ response = None
    \/ \A i \in 1..Len(response[1]) :
          /\ response[1][i].functionCall = None
          /\ ~response[1][i].inlineData
          /\ response[1][i].text = None \/ Trim(response[1][i].text[1]) = <<>>

\* C1: one invocation issues at most 5 model calls, and once started it
\* terminates (returns or raises), after which it issues no further call.
C1_AtMostFiveCallsThenTerminates ==
    /\ [](modelCalls <= 5 /\ turnCount = modelCalls)
    /\ (chatPc # "idle") ~> ChatTerminated
    /\ [][ChatTerminated => UNCHANGED chatVars]_vars

\* an invocation that used all five model calls has returned
C1_Witness == chatPc = "done" /\ modelCalls = 5 /\ toolResponses = 5

\* the results of the calls handled so far pair off with the calls, in order
ResultsPairCalls ==
    \A i \in 1..Len(functionResponseParts) :
        /\ i <= Len(RawCalls)
        /\ functionResponseParts[i].functionResponse # None
        /\ functionResponseParts[i].functionResponse[1].name = RawCalls[i].name
        /\ functionResponseParts[i].functionResponse[1].id = RawCalls[i].id

\* C2: for a response with tool calls, the i-th result carries the name and id
\* of the i-th call, there is exactly one result per call, all results are
\* appended as one turn, and no model call is issued before every call of the
\* response has been handled and that turn has been appended.
C2_OneResultPerCallOneTurn ==
    /\ [](chatPc \in {"dispatch", "loopHead"} => ResultsPairCalls)
    /\ [](chatPc = "dispatch" => Len(functionResponseParts) = callIdx - 1)
    /\ []((chatPc = "loopHead" /\ RawCalls # <<>>) =>
            /\ Len(functionResponseParts) = Len(RawCalls)
            /\ contents[Len(contents)] =
                  [role |-> "user", sent |-> FALSE, parts |-> functionResponseParts]
            /\ contents[Len(contents) - 1].role = "model"
            /\ ~contents[Len(contents) - 1].sent
            /\ resultTurns = toolResponses)
    /\ [][(chatPc = "dispatch" /\ chatPc' # "dispatch") =>
            /\ chatPc' = "loopHead"
            /\ Len(contents') = Len(contents) + 1
            /\ resultTurns' = resultTurns + 1]_vars
    /\ [][modelCalls' # modelCalls =>
            /\ dispatched = callsReceived
            /\ resultTurns = toolResponses
            /\ Len(functionResponseParts) = Len(RawCalls)]_vars

\* a response with two calls of different ids has got its two results
C2_Witness ==
    /\ chatPc = "loopHead"
    /\ Len(RawCalls) = 2
    /\ RawCalls[1].id = <<"call-2">>
    /\ RawCalls[2].id = <<"call-1">>
    /\ Len(functionResponseParts) = 2
    /\ resultTurns = 2

\* C3: when the responses of turns 1..k-1 held tool calls and the response of
\* turn k holds none, the engine has made exactly k model calls (k <= 5) and
\* returns the first text segment of that response; with k = 2 and one call on
\* turn 1 it has handled one call and appended one result turn.
C3_ReturnsTextOfTurnK ==
    (chatPc = "done" /\ response # None /\ RawCalls = <<>>) =>
        /\ modelCalls = toolResponses + 1
        /\ modelCalls <= 5
        /\ RawHasText => returned = Some(RawFirstText[1])
        /\ (modelCalls = 2 /\ callsReceived = 1) =>
              dispatched = 1 /\ resultTurns = 1

\* a tool call on turn 1, then two text segments on turn 2: the first is returned
C3_Witness ==
    /\ chatPc = "done"
    /\ modelCalls = 2
    /\ callsReceived = 1
    /\ dispatched = 1
    /\ response = Some(<<TextPart(<<"Hello">>), TextPart(<<WS, "Bye">>)>>)
    /\ returned = Some(<<"Hello">>)

\* C4: when all 5 turns brought tool calls, no sixth model call is made, no
\* error is raised, and what is returned is the accumulated text, which is
\* empty, so the fallback "..." is returned.
C4_ExhaustedTurnsReturnNormally ==
    toolResponses = 5 =>
        /\ modelCalls = 5
        /\ chatPc \in {"dispatch", "loopHead", "return", "done"}
        /\ chatThrown = None
        /\ finalResponseText = <<>>
        /\ chatPc = "done" => returned = Some(<<"...">>)

\* five turns of tool calls have ended in a normal return
C4_Witness ==
    /\ toolResponses = 5
    /\ chatPc = "done"
    /\ dispatched >= 5
    /\ returned = Some(<<"...">>)

\* C5 as stated: a response without usable content ends the loop; on the first
\* iteration the apology is returned, on a later one the accumulated text, or
\* the "let's play" utterance if there is none.
C5_AsStated ==
    [][(chatPc = "awaitModel" /\ chatPc' # "failed" /\ NoUsableContent') =>
         /\ chatPc' = "return"
         /\ finalResponseText' =
               IF turnCount = 1 THEN ApologyUtterance
               ELSE IF finalResponseText # <<>> THEN finalResponseText
               ELSE LetsPlayUtterance]_vars

\* C5 (amended): a response without usable content ends the loop at once.  If
\* the response has no content (no parts) the apology is returned on the first
\* iteration, and on a later one the accumulated text, or "..." if there is
\* none.  If it has parts but none is usable, on every iteration the accumulated
\* text is returned, or the "let's play" utterance if there is none.
C5_TwoEmptyExits ==
    /\ [][(chatPc = "awaitModel" /\ chatPc' # "failed" /\ NoUsableContent') =>
            /\ chatPc' = "return"
            /\ modelCalls' = modelCalls
            /\ finalResponseText' =
                  IF response' = None
                  THEN (IF turnCount = 1
                        THEN <<"I'm sorry, I got distracted by a butterfly. What did you say?">>
                        ELSE finalResponseText)
                  ELSE (IF finalResponseText # <<>> THEN finalResponseText
                        ELSE <<"I can't talk about that right now, but let's play!">>)]_vars
    /\ []((chatPc = "done" /\ NoUsableContent) =>
            /\ modelCalls = turnCount
            /\ returned = Some(IF finalResponseText # <<>> THEN finalResponseText
                               ELSE <<"...">>))
    /\ [](chatPc \in {"loopHead", "awaitModel", "dispatch"} => finalResponseText = <<>>)

\* a later iteration got no content and "..." was returned
C5_Witness ==
    /\ chatPc = "done"
    /\ turnCount = 2
    /\ response = None
    /\ returned = Some(<<"...">>)

\* the call the for loop stands at
CurrentCall == functionCalls[callIdx]

AtCall == chatPc = "dispatch" /\ callIdx <= Len(functionCalls)

\* the last response holds a call of a name that is not a chat tool
HasUnknownCall ==
    \E i \in 1..Len(functionCalls) :
        functionCalls[i].name \notin {"updateMemory", "updateCharacterName", "setMood"}

\* C6: a call of an unknown name invokes no callback and is acknowledged with a
\* success result of its name and id; it raises nothing and does not end the
\* loop: the results are appended and, turns permitting, the next model call
\* is issued.
C6_UnknownToolAcknowledged ==
    /\ [][(AtCall /\ CurrentCall.name
                        \notin {"updateMemory", "updateCharacterName", "setMood"}) =>
            /\ responseCallbacks' = responseCallbacks
            /\ functionResponseParts' =
                  Append(functionResponseParts,
                         MkPart(None, None,
                                Some([name |-> CurrentCall.name,
                                      response |-> <<"Function executed.">>,
                                      id |-> CurrentCall.id]), FALSE))
            /\ chatPc' = "dispatch"
            /\ chatThrown' = None]_vars
    /\ [][(chatPc = "dispatch" /\ HasUnknownCall) =>
            chatPc' \in {"dispatch", "loopHead"}]_vars
    /\ [][(chatPc = "loopHead" /\ HasUnknownCall /\ turnCount < 5) =>
            chatPc' = "awaitModel" /\ modelCalls' = modelCalls + 1]_vars

\* a response whose only call was of an unknown name: no callback, one result,
\* and the loop is about to call the model again
C6_Witness ==
    /\ chatPc = "loopHead"
    /\ turnCount = 1
    /\ Len(functionCalls) = 1
    /\ functionCalls[1].name = "manageSpeechTask"
    /\ responseCallbacks = <<>>
    /\ Len(functionResponseParts) = 1

\* the one callback a call of a chat tool is to invoke
ExpectedCallback(call) ==
    CASE call.name = "updateMemory" ->
            [cb |-> "onMemoryUpdate", a1 |-> call.args.key, a2 |-> call.args.value,
             a3 |-> call.args.action]
      [] call.name = "updateCharacterName" ->
            [cb |-> "onCharacterUpdate", a1 |-> call.args.newName, a2 |-> None,
             a3 |-> None]
      [] call.name = "setMood" ->
            [cb |-> "onMoodUpdate", a1 |-> call.args.mood, a2 |-> None, a3 |-> None]

\* C7: a call of a chat tool invokes exactly the callback mapped to its name,
\* once, with the arguments of the call, and no other callback.
C7_KnownToolInvokesItsCallback ==
    /\ [][(AtCall /\ CurrentCall.name \in {"updateMemory", "updateCharacterName", "setMood"})
            => responseCallbacks' = Append(responseCallbacks, ExpectedCallback(CurrentCall))]_vars
    /\ [][responseCallbacks' # responseCallbacks =>
            \/ AtCall /\ CurrentCall.name \in {"updateMemory", "updateCharacterName", "setMood"}
            \/ responseCallbacks' = <<>>]_vars

\* updateMemory and setMood in one response: both callbacks, with their arguments
C7_Witness ==
    /\ chatPc = "loopHead"
    /\ responseCallbacks =
          << [cb |-> "onMemoryUpdate", a1 |-> <<"childName">>, a2 |-> <<"Sam">>,
              a3 |-> <<"set">>],
             [cb |-> "onMoodUpdate", a1 |-> <<"happy">>, a2 |-> None, a3 |-> None] >>

----------------------------------------------------------------------------
(* Claims about withErrorHandling *)

\* the status the catch block reads off the caught error
CaughtStatus == ExtractStatus(opError[1])

\* the caught error has no truthy status and its message carries a signature
CaughtBySignature ==
    /\ ~TruthyNum(CaughtStatus)
    /\ HasQuotaSignature(opError[1].message) \/ HasOverloadSignature(opError[1].message)

\* the message a failure of the default class is raised with
CaughtMessageOrGeneric ==
    IF opError[1].message # None /\ opError[1].message[1] # <<>>
    THEN opError[1].message[1] ELSE GenericMessage

\* C8 as stated: status 429 gives 60000 and quota, status 503 gives 10000 and no
\* quota, and ANY other failure gives 5000, no quota and the original message (or
\* the generic one).
C8_AsStated ==
    invPc = "thrown" =>
        /\ CaughtStatus = <<429>> =>
              invThrown[1].retryDelay = 60000 /\ invThrown[1].isQuotaError
        /\ CaughtStatus = <<503>> =>
              invThrown[1].retryDelay = 10000 /\ ~invThrown[1].isQuotaError
        /\ CaughtStatus \notin {<<429>>, <<503>>} =>
              /\ invThrown[1].retryDelay = 5000
              /\ ~invThrown[1].isQuotaError
              /\ invThrown[1].message = CaughtMessageOrGeneric

\* C8 (amended): status 429 gives retryDelay 60000 and isQuotaError; status 503
\* gives 10000 and no quota; every other failure, except one that has no status
\* and whose message carries a quota or overload signature, gives 5000, no quota
\* and the original message, or the generic message when there is none.
C8_Classification ==
    invPc = "thrown" =>
        /\ CaughtStatus = <<429>> =>
              invThrown[1].retryDelay = 60000 /\ invThrown[1].isQuotaError
        /\ CaughtStatus = <<503>> =>
              invThrown[1].retryDelay = 10000 /\ ~invThrown[1].isQuotaError
        /\ (CaughtStatus \notin {<<429>>, <<503>>} /\ ~CaughtBySignature) =>
              /\ invThrown[1].retryDelay = 5000
              /\ ~invThrown[1].isQuotaError
              /\ invThrown[1].message = CaughtMessageOrGeneric

\* a failure of the default class that has a message of its own was raised
C8_Witness ==
    /\ invPc = "thrown"
    /\ CaughtStatus = <<500>>
    /\ opError[1].message = <<(<<"network", "down">>)>>
    /\ invThrown[1].retryDelay = 5000
    /\ invThrown[1].message = <<"network", "down">>

\* C9 as stated: status 429 OR a quota signature in the message gives 60000 and
\* quota; status 503 OR an overload signature gives 10000; whatever other status
\* the failure carries.
C9_AsStated ==
    invPc = "thrown" =>
        /\ (CaughtStatus = <<429>> \/ HasQuotaSignature(opError[1].message)) =>
              invThrown[1].retryDelay = 60000 /\ invThrown[1].isQuotaError
        /\ (CaughtStatus = <<503>> \/ HasOverloadSignature(opError[1].message)) =>
              invThrown[1].retryDelay = 10000

\* C9 (amended): a failure whose status is 429, or that has no status and whose
\* message carries a quota signature, is raised with 60000 and isQuotaError; a
\* failure whose status is 503, or that has no status and whose message carries
\* an overload signature and no quota signature, is raised with 10000 and no
\* quota.  A signature in the message of a failure that has a status is ignored.
C9_SignatureOnlyWithoutStatus ==
    invPc = "thrown" =>
        /\ (\/ CaughtStatus = <<429>>
            \/ ~TruthyNum(CaughtStatus) /\ HasQuotaSignature(opError[1].message)) =>
              invThrown[1].retryDelay = 60000 /\ invThrown[1].isQuotaError
        /\ (\/ CaughtStatus = <<503>>
            \/ /\ ~TruthyNum(CaughtStatus)
               /\ HasOverloadSignature(opError[1].message)
               /\ ~HasQuotaSignature(opError[1].message)) =>
              invThrown[1].retryDelay = 10000 /\ ~invThrown[1].isQuotaError
        /\ (TruthyNum(CaughtStatus) /\ CaughtStatus \notin {<<429>>, <<503>>}) =>
              invThrown[1].retryDelay = 5000

\* a failure without status was classified by the quota signature of its message
C9_Witness ==
    /\ invPc = "thrown"
    /\ opError[1].status = None
    /\ opError[1].responseStatus = None
    /\ opError[1].message = <<(<<"quota", "exceeded">>)>>
    /\ invThrown[1].retryDelay = 60000
    /\ invThrown[1].isQuotaError

\* C10: one invocation calls the operation exactly once; a resolved value is
\* returned unchanged; a rejection is rethrown as a GeminiError, never as
\* anything else, and never turned into a value.
C10_OnceAndReclassified ==
    /\ opCalls <= 1
    /\ invPc # "idle" => opCalls = 1
    /\ invPc = "awaiting" => opValue = None /\ opError = None
    /\ invPc = "returned" =>
          /\ opValue # None /\ opError = None
          /\ invValue = opValue
          /\ invThrown = None
    /\ invPc = "thrown" =>
          /\ opError # None /\ opValue = None
          /\ invValue = None
          /\ invThrown # None
          /\ invThrown[1].name = "GeminiError"
          /\ invThrown[1].retryDelay \in {5000, 10000, 60000}

\* an operation that was called once has failed and a GeminiError was thrown
C10_Witness ==
    /\ invPc = "thrown"
    /\ opCalls = 1
    /\ opError # None
    /\ invThrown[1].name = "GeminiError"

----------------------------------------------------------------------------
(* Claims about practice tasks *)

\* the step in which generateTherapyTask settles
GenerationSettles == therapyPc = "generating" /\ therapyPc' = "idle"

\* the step in which assessPronunciation resolves and handleTherapyRecord completes
AssessmentReturns == therapyPc = "assessing" /\ therapyPc' = "idle" /\ apiError' = None

IsManageCall(c) == c.name = "manageSpeechTask"

\* the task-management calls of a response's calls
ManageCalls(cs) == SelectSeq(cs, IsManageCall)

\* C11 as stated: task generation never propagates a failure: whenever the
\* generation call settles, by a result or by a failure of the remote call or of
\* the check for a word, the handler holds a task with attempts 0 and status
\* 'new' and no error has reached it.
C11_AsStated ==
    [][GenerationSettles =>
          /\ apiError' = None
          /\ activeTask' # None
          /\ activeTask'[1].attempts = 0
          /\ activeTask'[1].status = "new"]_vars

C13_NoCallNoUpdate ==
    [][AssessmentReturns /\ ManageCalls(calls') = <<>> =>
          activeTask' = activeTask /\ memory' = memory]_vars

C13_Witness ==
    /\ therapyPc = "idle"
    /\ calls # <<>>
    /\ ManageCalls(calls) = <<>>
    /\ activeTask = closureTask
    /\ activeTask[1].status = "mastered"

\* C14 as stated: every assessment that returns leaves the assessed task with one
\* attempt more than it had when the recording was started, whether or not the
\* response held a task-management call.
C14_AsStated ==
    [][AssessmentReturns =>
          /\ activeTask' # None
          /\ activeTask'[1].id = closureTask[1].id
          /\ activeTask'[1].attempts = closureTask[1].attempts + 1]_vars

\* C15 as stated: every assessment that does not report mastered leaves the task
\* in_progress with one attempt more, and from the third attempt on the skip
\* control is shown while the panel is neither recording nor loading.
C15_AsStated ==
    [][AssessmentReturns
          /\ (\A i \in 1..Len(calls') :
                  IsManageCall(calls'[i]) => calls'[i].args.status # "mastered")
       => /\ activeTask' # None
          /\ activeTask'[1].attempts = closureTask[1].attempts + 1
          /\ activeTask'[1].status = "in_progress"
          /\ (activeTask'[1].attempts >= SkipThreshold => SkipShown')]_vars

\* C16 as stated: for every phoneme, no step of a session (assessments, memory
\* updates of the chat, settings saves, new tasks) lowers or resets the attempts
\* and success counters of memory.phonemeStats.
C16_AsStated ==
    [][\A p \in Phonemes :
          /\ CurrentStats(memory'.phonemeStats, p).attempts
                >= CurrentStats(memory.phonemeStats, p).attempts
          /\ CurrentStats(memory'.phonemeStats, p).success
                >= CurrentStats(memory.phonemeStats, p).success]_vars

----------------------------------------------------------------------------
(* Claims about the baseline assessment *)

\* the step in which an analysis call settles
BaselineSettles == baselinePc = "analyzing" /\ baselinePc' = "idle"

\* the response of the analysis call carries the structured result
IsStructured(result) ==
    /\ result.text
    /\ result.json
    /\ result.value # None
    /\ result.value[1].results # None
    /\ result.value[1].summary # None
    /\ result.value[1].recommendedStartingPoint # None

\* C17 as stated: whenever a baseline analysis settles without a response that
\* parses as the structured result {results, summary, recommendedStartingPoint},
\* a GeminiError reaches finishBaseline and memory.baseline is not written.
C17_AsStated ==
    [][BaselineSettles /\ (baselineResult' = None \/ ~IsStructured(baselineResult'[1])) =>
          /\ baselineError' # None
          /\ baselineError'[1].name = "GeminiError"
          /\ memory'.baseline = memory.baseline]_vars

----------------------------------------------------------------------------
(* Claims about the interactive story *)

\* no item is named twice
Distinct(items) ==
    \A i, j \in 1..Len(items) : i # j => items[i] # items[j]

\* the list without one occurrence of the item, the others in their order
WithoutItem(list, item) ==
    LET k == CHOOSE k \in 1..Len(list) : list[k] = item
    IN SubSeq(list, 1, k - 1) \o SubSeq(list, k + 1, Len(list))

\* a continuation succeeds: its segment is stored
ContinuationSucceeds ==
    /\ storyPc = "continuing"
    /\ storyPc' = "idle"
    /\ storyState' # storyState

\* the items the segments of the story have consumed
Consumed(state) == {state.segments[k].uses : k \in 2..Len(state.segments)}

\* C18: in a story started with distinct items and not reset, each successful
\* continuation leaves the previous remaining items minus the chosen one, in their
\* order, and adds exactly one segment; the session is flagged complete only once
\* every item has been consumed, one segment each after the intro
C18_ItemsConsumedOneByOne ==
    [][/\ (ContinuationSucceeds /\ storyState.hasStarted
            /\ Distinct(storyState.items))
          => /\ storyState'.availableItems =
                    WithoutItem(storyState.availableItems, storyCall.item)
             /\ Len(storyState'.segments) = Len(storyState.segments) + 1
             /\ isFinished' <=> Len(storyState.availableItems) = 1
       /\ (isFinished' /\ Distinct(storyState'.items))
          => /\ Len(storyState'.segments) = Len(storyState'.items) + 1
             /\ Consumed(storyState') = {storyState'.items[k] :
                                             k \in 1..Len(storyState'.items)}
      ]_vars

\* the story of Map, Key and Compass, consumed in this order, is complete
C18_Witness ==
    /\ isFinished
    /\ storyState.items = <<"Map", "Key", "Compass">>
    /\ Len(storyState.segments) = 4
    /\ << storyState.segments[2].uses, storyState.segments[3].uses,
          storyState.segments[4].uses >> = <<"Map", "Key", "Compass">>

StoryNotStarted == storyState = INITIAL_STORY_STATE

StoryInProgress ==
    Len(storyState.segments) >= 1 /\ storyState.availableItems # <<>>

StoryComplete ==
    storyState.availableItems = <<>> /\ Len(storyState.segments) >= 1

\* C19: whenever no generation is in flight and none has failed, the session is
\* NotStarted, InProgress or Complete; only the reset leads into NotStarted, and a
\* session that is NotStarted stays so until a story is started, also when a
\* generation was in flight at the reset
C19_AsStated ==
    [][/\ (storyPc' = "idle" /\ apiError' = None)
          => (StoryNotStarted' \/ StoryInProgress' \/ StoryComplete')
       /\ (StoryNotStarted' /\ ~StoryNotStarted)
          => UNCHANGED <<storyPc, storyCall, activity, apiError>>
       /\ (StoryNotStarted /\ ~(storyPc = "idle" /\ storyPc' = "starting"))
          => StoryNotStarted'
      ]_vars

----------------------------------------------------------------------------
(* Claims about the audiobook *)

\* the download in flight ends
DownloadEnds == bookPc # "idle" /\ bookPc' = "idle"

\* C21: speech is requested for the segments one at a time in segment order, and
\* a download ends with the alert and no file only if no segment yielded audio:
\* otherwise every segment has been requested and the file holds the audio of the
\* segments that yielded some, in segment order
C21_AsStated ==
    [][/\ bookPc' = "synthesizing"
          => /\ speechCalls' = SubSeq(bookSegments', 1, Len(speechCalls'))
             /\ Len(speechCalls') = Len(speechResults') + 1
       /\ DownloadEnds
          => /\ bookOutcome'.kind = "alert" <=> allAudio = <<>>
             /\ allAudio # <<>>
                => /\ speechCalls = bookSegments
                   /\ bookOutcome' = FileOutcome(audioBufferToWav(
                         pcmToAudioBuffer(Combined(allAudio), DefaultSampleRate).value[1]))
      ]_vars

----------------------------------------------------------------------------
(* Claims about playback *)

\* C22: at most one synthesized-speech source plays at any time, in every
\* interleaving of speakText calls
C22_AsStated == Cardinality(playing) <= 1

----------------------------------------------------------------------------
(* Claims about the error banner *)

\* C23: while the banner of a surfaced error is shown, the retry control is
\* enabled only when the countdown started at the error's retryDelay has reached
\* zero, after at least retryDelay / 1000 ticks, and it is enabled whenever the
\* countdown has reached zero
C23_RetryAfterCountdown ==
    BannerShown =>
        /\ canRetry => /\ timeLeft <= 0
                       /\ ticks * 1000 >= apiError[1].retryDelay
        /\ timeLeft <= 0 => canRetry
        /\ timeLeft = apiError[1].retryDelay - ticks * 1000

\* the retry control is enabled sixty ticks after a quota error
C23_Witness ==
    /\ BannerShown
    /\ canRetry
    /\ apiError[1].retryDelay = QuotaDelay
    /\ ticks = 60

----------------------------------------------------------------------------
(* Claims about the recordings of a practice task *)

\* C24: while a handleTherapyRecord call is in flight no recording is started, and
\* no two calls in flight assess the same task
C24_AsStated ==
    [][/\ handlers # <<>> => ~(isRecording' /\ ~isRecording)
       /\ \A i, j \in 1..Len(handlers') :
             i # j => handlers'[i].task.id # handlers'[j].task.id
      ]_vars


\* a step of handleLoadState that accepts the exported document
ImportStep == LoadState /\ pendingHistory' # None

\* C25 as stated: exporting the state document and importing that document again
\* yields a memory, chat history, character and story state equal to the exported
\* ones.
C25_AsStated ==
    [][ImportStep =>
          /\ memory' = exported[1].memory
          /\ messages' = exported[1].chatHistory
          /\ character' = Some(exported[1].character)
          /\ storyState' = exported[1].storyState]_vars

\* C25 as amended: importing the exported document yields a memory, character and
\* story state equal to the exported ones; the exported chat history becomes the
\* pending history and the chat history shown is emptied.
C25_ImportRestores ==
    [][ImportStep =>
          /\ memory' = exported[1].memory
          /\ character' = Some(exported[1].character)
          /\ storyState' = exported[1].storyState
          /\ pendingHistory' = Some(exported[1].chatHistory)
          /\ messages' = <<>>]_vars

\* a document with a name, a told story and a chat history has been imported into a
\* session that had moved on since the export
C25_Witness ==
    /\ exported # None
    /\ pendingHistory = Some(exported[1].chatHistory)
    /\ Len(exported[1].chatHistory) > 1
    /\ messages = <<>>
    /\ exported[1].memory.childName # Undefined
    /\ memory = exported[1].memory
    /\ \E i \in 1..Len(memory.achievements) : memory.achievements[i] = "memory_saved"
    /\ storyState = exported[1].storyState
    /\ Len(storyState.segments) > 0


\* C26 as stated: when the conversion of a recording to WAV fails the original
\* recording is submitted with its native MIME type, when it succeeds the WAV data
\* is submitted as 'audio/wav'; in both cases the MIME type submitted matches the
\* data submitted.
C26_AsStated ==
    submitted # None =>
        /\ conversion = "ok" =>
              /\ submitted[1].mimeType = "audio/wav"
              /\ submitted[1].data = Base64(audioBufferToWav(recording[1].audio[1]))
        /\ conversion = "failed" =>
              /\ submitted[1].mimeType = recording[1].format
              /\ submitted[1].data = Base64(recording[1].bytes)


\* the 16-bit value that bytes 2i-1 and 2i spell, little-endian two's complement
SignedAt(bytes, i) ==
    LET unsigned == bytes[2 * i - 1] + 256 * bytes[2 * i]
    IN IF unsigned >= 32768 THEN unsigned - 65536 ELSE unsigned

\* the data chunk of a WAV file: what follows the 44 bytes of the header
DataChunk(wav) == SubSeq(wav, 45, Len(wav))

Distance(a, b) == IF a >= b THEN a - b ELSE b - a

\* C27: an even-length buffer of 16-bit little-endian PCM that is decoded by
\* pcmToAudioBuffer and encoded again by audioBufferToWav gives a data chunk of as
\* many samples, each at most 1 away from the original 16-bit value.
C27_RoundTripWithinOne ==
    (decodeResult # None /\ wavResult # None /\ Len(pcmData) % 2 = 0) =>
        /\ Len(DataChunk(wavResult[1])) = Len(pcmData)
        /\ \A i \in 1..(Len(pcmData) \div 2) :
              Distance(SignedAt(DataChunk(wavResult[1]), i), SignedAt(pcmData, i)) <= 1

\* the buffer of the samples 32767 and -32768 has gone through both conversions: the
\* positive sample came back one lower, the negative one unchanged
C27_Witness ==
    /\ pcmData = <<255, 127, 0, 128>>
    /\ decodeResult # None
    /\ wavResult # None
    /\ SignedAt(DataChunk(wavResult[1]), 1) = 32766
    /\ SignedAt(DataChunk(wavResult[1]), 2) = -32768

\* C28: pcmToAudioBuffer applied to a buffer with an odd number of bytes ends in an
\* error; it returns no audio buffer built from the truncated input.
C28_OddLengthFails ==
    (decodeResult # None /\ Len(pcmData) % 2 = 1) =>
        /\ decodeResult[1].error # "none"
        /\ decodeResult[1].value = None

\* a buffer of three bytes has been handed to pcmToAudioBuffer, which threw
C28_Witness ==
    /\ Len(pcmData) = 3
    /\ decodeResult = Some(Thrown("RangeError"))


RECURSIVE LengthsBefore(_, _)
\* the number of frames of the buffers that precede buffer i
LengthsBefore(buffers, i) ==
    IF i = 1 THEN 0
    ELSE LengthsBefore(buffers, i - 1) + Len(buffers[i - 1].channelData)

\* C29: for a sequence of audio buffers sharing a sample rate concatenateAudioBuffers
\* returns a buffer whose length is the sum of the input lengths and whose sample at
\* offset k of the i-th segment is that segment's sample k; for the empty sequence it
\* returns null and throws nothing.
C29_ConcatenationKeepsSegments ==
    concatResult # None =>
        IF floatBuffers = <<>>
        THEN concatResult[1] = [error |-> "none", value |-> Some(None)]
        ELSE /\ concatResult[1].error = "none"
             /\ concatResult[1].value[1] # None
             /\ LET output == concatResult[1].value[1][1].channelData
                IN /\ Len(output) = LengthsBefore(floatBuffers, Len(floatBuffers) + 1)
                   /\ \A i \in 1..Len(floatBuffers) :
                         \A k \in 1..Len(floatBuffers[i].channelData) :
                            output[LengthsBefore(floatBuffers, i) + k]
                               = floatBuffers[i].channelData[k]

\* two buffers that differ, the first of them longer than one frame, have been
\* concatenated
C29_Witness ==
    /\ Len(floatBuffers) = 2
    /\ floatBuffers[1] # floatBuffers[2]
    /\ Len(floatBuffers[1].channelData) = 2
    /\ concatResult # None
    /\ concatResult[1].error = "none"
    /\ Len(concatResult[1].value[1][1].channelData) >= 3


\* the number that the bytes at offset .. offset + count - 1 of a file spell,
\* little-endian (offset counted from 0, as in the WAV layout)
RECURSIVE FieldAt(_, _, _)
FieldAt(wav, offset, count) ==
    IF count = 0 THEN 0
    ELSE wav[offset + 1] + 256 * FieldAt(wav, offset + 1, count - 1)

\* the buffer that audioBufferToWav was given
Encoded == IF decodeResult # None THEN decodeResult[1].value[1] ELSE floatBuffers[1]

\* the written sample w is the sample x brought into [-32768, 32767]: it has not
\* wrapped around
InRange(x, w) ==
    /\ -32768 <= w /\ w <= 32767
    /\ ~x.nan =>
          /\ x.n >= FloatOne => w = 32767
          /\ x.n <= -FloatOne => w = -32768
          /\ x.n >= 0 => w >= 0
          /\ x.n <= 0 => w <= 0

\* C30: for a buffer of n samples at sample rate r audioBufferToWav writes 44 + 2n
\* bytes with RIFF size 36 + 2n, data-chunk length 2n, format code 1, 1 channel,
\* sample rate r, byte rate 2r, block align 2 and 16 bits per sample, and every
\* written sample lies in [-32768, 32767].
C30_CanonicalWav ==
    wavResult # None =>
        LET wav == wavResult[1]
            n == Len(Encoded.channelData)
            r == Encoded.sampleRate
        IN /\ Len(wav) = 44 + 2 * n
           /\ SubSeq(wav, 1, 4) = <<82, 73, 70, 70>>
           /\ FieldAt(wav, 4, 4) = 36 + 2 * n
           /\ FieldAt(wav, 16, 4) = 16
           /\ FieldAt(wav, 20, 2) = 1
           /\ FieldAt(wav, 22, 2) = 1
           /\ FieldAt(wav, 24, 4) = r
           /\ FieldAt(wav, 28, 4) = 2 * r
           /\ FieldAt(wav, 32, 2) = 2
           /\ FieldAt(wav, 34, 2) = 16
           /\ FieldAt(wav, 40, 4) = 2 * n
           /\ \A i \in 1..n : InRange(Encoded.channelData[i], SignedAt(DataChunk(wav), i))

\* a buffer of two samples beyond 1 and -1 at 48000 Hz has been encoded
C30_Witness ==
    /\ wavResult # None
    /\ decodeResult = None
    /\ floatBuffers[1].sampleRate = 48000
    /\ Len(floatBuffers[1].channelData) = 2
    /\ floatBuffers[1].channelData[1].n > FloatOne
    /\ floatBuffers[1].channelData[2].n < -FloatOne
    /\ Len(wavResult[1]) = 48


\* C31 as stated: during one application session at most one audio-decoding context
\* is ever created; every later decode, encode, transcode or playback reuses it.
C31_AsStated == contexts <= 1


\* C32 as stated: in the assessment context every tool call made by the model is
\* paired with a tool result carrying the same call id and name, appended to the
\* next outbound turn sent to the model.
C32_AsStated ==
    (convertPc = "idle" /\ outbound # <<>>) =>
        \A i \in 1..Len(calls) :
            \E j \in 2..Len(outbound) :
                \E k \in 1..Len(outbound[j].functionResponses) :
                    /\ outbound[j].functionResponses[k].id = calls[i].id
                    /\ outbound[j].functionResponses[k].name = calls[i].name


\* the utterances that executeChat holds as fixed text
FixedUtterances ==
    {<<"I'm sorry, I got distracted by a butterfly. What did you say?">>,
     <<"I can't talk about that right now, but let's play!">>, <<"...">>}

\* C33: executeChat returns a non-empty utterance, which is the first text segment
\* of a response that holds no tool call, one of the two fixed fallback utterances,
\* or the placeholder "..."; a text segment that arrives in the same response as a
\* tool call is never returned.
C33_ReturnedUtterance ==
    chatPc = "done" =>
        /\ returned # None
        /\ returned[1] # <<>>
        /\ \/ returned[1] \in FixedUtterances
           \/ /\ RawCalls = <<>>
              /\ RawHasText
              /\ returned[1] = RawFirstText[1]
        /\ RawCalls # <<>> => returned[1] \in FixedUtterances

\* the last response held a tool call next to a text segment, the turns ran out and
\* the placeholder was returned instead of that text
C33_Witness ==
    /\ chatPc = "done"
    /\ RawCalls # <<>>
    /\ RawHasText
    /\ returned = Some(<<"...">>)


\* ---------------------------------------------------------------------------
\* C34: the error and its retry action

\* an operation of handleApiOperation ends in this step with the failure that
\* sets the error: it is no longer running, and the retry action names it
FailedWith(i) ==
    /\ running' = Without(running, i)
    /\ retryAction' = running[i].name

\* C34: apiError is non-null exactly when retryAction is non-null; a step that
\* starts an operation clears both; a step that sets either of them is the
\* failure of a running operation with a GeminiError, and the retry action it
\* sets is that operation; and the retry control starts the operation that the
\* retry action names.
C34_ErrorWithRetry ==
    /\ (apiError # None) <=> (retryAction # "none")
    /\ [][/\ Len(running') > Len(running)
             => apiError' = None /\ retryAction' = "none"
          /\ ((apiError' # None \/ retryAction' # "none")
                /\ <<apiError', retryAction'>> # <<apiError, retryAction>>)
             => /\ apiError' # None
                /\ apiError'[1].name = "GeminiError"
                /\ \E i \in 1..Len(running) : FailedWith(i)
          /\ (Len(running') > Len(running) /\ running'[Len(running')].retried)
             => /\ apiError # None
                /\ running'[Len(running')].name = retryAction]_vars

\* C34 witness: the story operation failed while a chat send is still running,
\* and the banner holds the error with the retry action of the story operation
C34_Witness ==
    /\ apiError # None
    /\ retryAction = "story"
    /\ Len(running) = 1
    /\ running[1].name = "send"


----------------------------------------------------------------------------
(* Claims about the chat send *)

\* nothing is in flight: no send, no synthesis, no playback
Quiescent == requests = {} /\ synthesizing = {} /\ playing = {}

Settled == activity = "idle" /\ ~isTyping

C36_AsStated ==
    \A e \in ended :
        (e.retried /\ e.outcome = "reply") =>
            \E i \in 1..(Len(messages) - 1) :
                /\ messages[i] = ChatMessage("user", e.text)
                /\ messages[i + 1] = ChatMessage("model", Reply(e.text))
                /\ \A j \in 1..Len(messages) :
                      messages[j] = ChatMessage("user", e.text) => j = i


----------------------------------------------------------------------------
(* Claims about late and repeated task updates *)

\* the id of a task state, "none" for null
TaskIdOf(task) == IF task = None THEN "none" ELSE task[1].id

\* C37: when the result of an assessment arrives after the user has left the
\* assessed task or opened another one, the arrival does not change which task
\* is active
C37_AsStated ==
    [][(AssessmentReturns /\ TaskIdOf(activeTask) # TaskIdOf(closureTask))
          => TaskIdOf(activeTask') = TaskIdOf(activeTask)]_vars

\* the counters of the assessed task's phoneme
AssessedStats(m) == CurrentStats(m.phonemeStats, closureTask[1].targetPhoneme[1])

\* C38: one assessed recording raises the attempts counter of the target phoneme
\* by at most 1 and its success counter by at most 1, whatever the number of
\* task-management calls of the response, and by as much as the task's attempts
C38_AsStated ==
    [][(AssessmentReturns /\ closureTask[1].targetPhoneme # None)
          => /\ AssessedStats(memory').attempts - AssessedStats(memory).attempts <= 1
             /\ AssessedStats(memory').success - AssessedStats(memory).success <= 1
             /\ ManageCalls(calls') # <<>>
                => AssessedStats(memory').attempts - AssessedStats(memory).attempts
                     = activeTask'[1].attempts - closureTask[1].attempts]_vars

\* C39: after a task-management update the entry of memory.speechTasks with the
\* active task's id has the status, attempts and history of the active task, and
\* the entries of the other tasks are what they were, whatever taskId the calls
\* name
C39_AsStated ==
    [][(AssessmentReturns /\ ManageCalls(calls') # <<>>)
          => /\ \E i \in 1..Len(memory'.speechTasks) :
                   memory'.speechTasks[i].id = activeTask'[1].id
             /\ \A i \in 1..Len(memory'.speechTasks) :
                   memory'.speechTasks[i].id = activeTask'[1].id
                   => /\ memory'.speechTasks[i].status = activeTask'[1].status
                      /\ memory'.speechTasks[i].attempts = activeTask'[1].attempts
                      /\ memory'.speechTasks[i].history = activeTask'[1].history
             /\ \A i \in 1..Len(memory.speechTasks) :
                   memory.speechTasks[i].id # closureTask[1].id
                   => memory'.speechTasks[i] = memory.speechTasks[i]]_vars

====
